---------------------------- MODULE Spec2Model ----------------------------
(***************************************************************************)
(* Model of the upload / merge / permission / search core of               *)
(* manshu-python (app/services/file_service.py, permission_service.py,     *)
(* search_service.py, app/api/v1/admin_router.py and the clients they      *)
(* call).  The stores (MySQL rows, Redis bitmap, MinIO objects, Kafka      *)
(* topic) are state variables; a store call that fails is an input of the  *)
(* operation that makes the call, handled the way the code handles it.     *)
(***************************************************************************)
EXTENDS Integers, Sequences, FiniteSets, TLC

(* ------------------------------ bounds --------------------------------- *)
NumUsers == 1
NumHashes == 1
MaxChunks == 2
NumData == 2
NumNames == 1
MaxEvents == 2
NumTags == 3
NumWorkers == 2
MaxCalls == 4
MaxLen == 4
MaxWindow == 3

Users == 1..NumUsers
Hashes == 1..NumHashes
ChunkIdx == 0..(MaxChunks - 1)
Data == 1..NumData
FileNames == 1..NumNames
Workers == 1..NumWorkers

\* one account more than the users, which calls in the scenarios with a second
\* account only, and the accounts that rows and objects can belong to
OtherUser == NumUsers + 1
Owners == 1..(NumUsers + 1)

\* one content hash more than the hashes, uploaded in the scenario with a
\* second file only, and the hashes that rows, keys and objects can carry
OtherHash == NumHashes + 1
AllHashes == 1..(NumHashes + 1)

\* the windows a file can be cut into: data value d stands for chunk bytes
\* whose text fills d windows
WindowIdx == 0..(MaxChunks * NumData - 1)

(* --------------------------- program constants ------------------------- *)
\* minio_client.merge_chunks: min_chunk_size = 5 * 1024 * 1024
MIN_CHUNK_SIZE == 5242880
\* PermissionService.DEFAULT_TAG = "DEFAULT"; tag ids are numbered, 0 is DEFAULT
DEFAULT_TAG == 0
\* FileUpload.status: 0 = uploading, 1 = merged
STATUS_UPLOADING == 0
STATUS_MERGED == 1

\* Python None for a tag / an absent object / an absent row
NoTag == -1
NoObj == 0
NoRow == [status |-> -1]
NoDoc == << >>

\* the search index holds no document under the id
NoEsDoc == [user_id |-> 0]

\* len(chunk_data): data value 1 is a chunk below the compose minimum,
\* the other values are chunks of at least MIN_CHUNK_SIZE bytes
ByteLen(d) == IF d = 1 THEN 2048 ELSE MIN_CHUNK_SIZE + (d - 2)

VARIABLES
    fileUpload,   \* file_upload rows: [<<file_md5, user_id>> -> row or NoRow]
    chunkInfo,    \* chunk_info rows: [<<file_md5, chunk_index>> -> number of rows]
    bitmap,       \* Redis upload:chunks:{md5}: [file_md5 -> set of bits that are 1]
    redisMeta,    \* Redis upload:meta:{md5}: [file_md5 -> key present]
    tempObj,      \* MinIO temp/{md5}/{idx}: [<<file_md5, idx>> -> data or NoObj]
    docObj,       \* MinIO documents/{user}/{name}: [<<user, name>> -> seq of data or NoDoc]
    kafkaTopic,   \* messages handed to the document_parse topic, in order
    primaryOrg,   \* users.primary_org: [user -> tag or NoTag]
    last,         \* the call that completed last, with its outcome
    ncalls,       \* the number of calls made so far
    clean,        \* no store call has failed so far
    merges,       \* the merge_file calls in flight: [worker -> its position and locals]
    orgTags,      \* organization_tags rows: [tag_id -> parent_tag, NoTag or NoTagRow]
    userOrgTags,  \* users.org_tags: [user -> the set of tags the column lists]
    esIndex,      \* the search index: [<<file_md5, chunk_id>> -> document or NoEsDoc]
    docVectors,   \* document_vectors rows: [<<file_md5, chunk_id>> -> number of rows]
    lastAdmin,    \* the arguments of the admin call that completed last
    lastSearch,   \* the hybrid_search call that completed last, with its outcome
    consumer,     \* the document_parse consumer: its offset and the message in hand
    split,        \* the split_text_into_chunks call: its arguments, locals and result
    walk,         \* the get_user_accessible_tags call: its arguments, locals and result
    uploads,      \* the upload_chunk calls in flight: [chunk_index -> position and locals]
    dupFileRows,  \* file_upload rows beyond the first: [<<file_md5, user_id>> -> number]
    climb,        \* the ancestor walk of an update_org_tag call: its rows and position
    listed,       \* the get_accessible_files call that completed last, with its rows
    proc          \* the process_document call in flight: its message and position

vars == <<fileUpload, chunkInfo, bitmap, redisMeta, tempObj, docObj, kafkaTopic, primaryOrg,
          last, ncalls, clean, merges, orgTags, userOrgTags, esIndex, docVectors,
          lastAdmin, lastSearch, consumer, split, walk, uploads, dupFileRows, climb, listed, proc>>

searchVars == <<orgTags, userOrgTags, esIndex, docVectors, lastAdmin, lastSearch,
                consumer, split, walk, uploads, dupFileRows, climb, listed, proc>>

\* the variables of the services and their stores
storeVars == <<fileUpload, chunkInfo, bitmap, redisMeta, tempObj, docObj, kafkaTopic,
               primaryOrg, last, ncalls, clean, merges, orgTags, userOrgTags, esIndex,
               docVectors, lastAdmin, lastSearch, consumer, uploads, dupFileRows, climb, listed, proc>>


(* ------------------------- Redis client wrappers ----------------------- *)
\* redis_client.get_bit: GETBIT, and 0 when the Redis call raises
GetBit(bm, h, i, fails) == IF fails THEN 0 ELSE IF i \in bm[h] THEN 1 ELSE 0

\* set_bit that never reaches Redis
SetBit_Lost(bm, h, i, fails) == bm

\* redis_client.set_bit(key, offset, 1): SETBIT, a no-op when the call raises
SetBit(bm, h, i, fails) == IF fails THEN bm ELSE [bm EXCEPT ![h] = @ \cup {i}]

\* redis_client.exists: the bitmap key exists once a bit of it has been set
Exists(bm, h, fails) == IF fails THEN FALSE ELSE bm[h] # {}

\* redis_client.bitcount
BitCount(bm, h, fails) == IF fails THEN 0 ELSE Cardinality(bm[h])

\* redis_client.clear_bitmap -> delete: DEL, a no-op when the call raises
ClearBitmap(bm, h, fails) == IF fails THEN bm ELSE [bm EXCEPT ![h] = {}]

\* redis_client.get_bitmap_progress, times 100 as its callers return it:
\* the fraction num/den of 100 percent, clamped to [0, 1]
Progress(bm, h, total, fails) ==
    IF total <= 0 THEN [num |-> 0, den |-> 1]
    ELSE IF ~Exists(bm, h, fails) THEN [num |-> 0, den |-> 1]
    ELSE LET done == BitCount(bm, h, fails)
         IN  IF done >= total THEN [num |-> 100, den |-> 1]
             ELSE [num |-> 100 * done, den |-> total]

(* --------------------------- FileService ------------------------------- *)
\* the record of a completed call: its arguments, the outcome f of its store
\* calls, and what it returned (res: "ok" or the error raised; ret, prog: the
\* uploaded list and the progress; branch: the path taken; wrote: it wrote the
\* chunk object / handed the event to the producer; again: it repeats the
\* arguments of the successful call right before it; puts: the number of
\* upload_bytes calls it made)
Call(op, u, h, i, d, tc, fn, f) ==
    [op |-> op, u |-> u, h |-> h, i |-> i, d |-> d, tc |-> tc, fn |-> fn,
     fault |-> f, wrote |-> FALSE, branch |-> "none", again |-> FALSE,
     res |-> "ok", ret |-> << >>, prog |-> [num |-> 0, den |-> 1], puts |-> 0]

NoCall == Call("none", 0, 0, 0, 0, 0, 0, "none")

RECURSIVE UploadedFrom(_, _, _, _, _)
\* the loop of get_uploaded_chunks from index i on: appends i when its bit is 1
UploadedFrom(bm, h, total, i, fails) ==
    IF i >= total THEN << >>
    ELSE (IF GetBit(bm, h, i, fails) = 1 THEN <<i>> ELSE << >>)
         \o UploadedFrom(bm, h, total, i + 1, fails)

\* FileService.get_uploaded_chunks
get_uploaded_chunks(bm, h, total, fails) ==
    IF total <= 0 THEN << >> ELSE UploadedFrom(bm, h, total, 0, fails)

\* the outcomes of the store calls of one upload_chunk call
UploadFaults == {"none", "get_bit", "set_bit", "read", "put", "stat",
                 "stat_put", "stat_stat", "commit"}

\* A file_exists that never finds the object.
file_exists_Never(objNow, statFalse) == FALSE

\* minio_client.file_exists: the object is there and stat_object did not raise
file_exists(objNow, statFalse) == objNow # NoObj /\ ~statFalse

\* upload_chunk, lines 77-171: the object write, by the three branches
\*   isUp: the bit read at line 64; existing: a chunk_info row was found;
\*   objNow: the object now at temp/{md5}/{idx}; d: the chunk bytes
\*   f: "put" upload_bytes returns False; "stat": the first file_exists
\*   returns False; "stat_put": so does it and the upload after it fails;
\*   "stat_stat": the first two file_exists return False
\*   puts: the number of upload_bytes calls made
ChunkWrite(isUp, existing, objNow, d, f) ==
    LET statFalse == f \in {"stat", "stat_put", "stat_stat"}
        found == file_exists(objNow, statFalse)
        putFails == f \in {"put", "stat_put"}
        keep == [err |-> "none", obj |-> objNow, setbit |-> FALSE, wrote |-> FALSE,
                 branch |-> "skip", puts |-> 0]
        put == [err |-> "none", obj |-> d, setbit |-> FALSE, wrote |-> TRUE,
                branch |-> "normal", puts |-> 1]
    IN  IF isUp = 1 /\ existing
        THEN IF found THEN keep
             ELSE IF putFails
                  THEN [keep EXCEPT !.err = "reupload_failed", !.branch = "reupload",
                                    !.puts = 1]
                  ELSE [put EXCEPT !.branch = "reupload"]
        ELSE IF isUp = 1 /\ ~existing
        THEN IF found THEN [keep EXCEPT !.branch = "repair"]
             ELSE IF putFails
                  THEN [keep EXCEPT !.err = "upload_failed", !.branch = "repair",
                                    !.puts = 1]
                  ELSE [put EXCEPT !.setbit = TRUE, !.branch = "repair"]
        ELSE IF f = "put" THEN [keep EXCEPT !.err = "upload_failed", !.branch = "normal",
                                            !.puts = 1]
             ELSE IF ~statFalse THEN [put EXCEPT !.setbit = TRUE]
             ELSE IF f = "stat" THEN [put EXCEPT !.setbit = TRUE, !.puts = 2]
             ELSE [put EXCEPT !.err = "verify_failed", !.puts = 2]

\* a row added on every pass through line 164, found or not
AddRow_Always(isUp, existing) == ~(isUp = 1 /\ existing)

\* upload_chunk, lines 163-171: a chunk_info row is added when none was found
\* (only on the branches that reach line 164)
AddRow(isUp, existing) == ~(isUp = 1 /\ existing) /\ ~existing

\* upload_chunk, lines 184-217: the file_upload row created or updated
FileRecordAfter(rec, u, fn, tag, pub) ==
    IF rec = NoRow
    THEN [status |-> STATUS_UPLOADING, file_name |-> fn,
          org_tag |-> IF tag # NoTag THEN tag ELSE primaryOrg[u],
          is_public |-> pub]
    ELSE [rec EXCEPT !.org_tag = IF tag # NoTag THEN tag ELSE @,
                     !.is_public = pub]

\* FileService.upload_chunk(user u, file_md5 h, chunk_index i, chunk_data d,
\* file_name fn, total_chunks tc (0: not given), org_tag tag, is_public pub)
UploadChunk(u, h, i, d, tc, fn, tag, pub, f) ==
    LET isUp == GetBit(bitmap, h, i, f = "get_bit")
        rows == chunkInfo[<<h, i>>]
        existing == rows > 0
        w == ChunkWrite(isUp, existing, tempObj[<<h, i>>], d, f)
        addRow == AddRow(isUp, existing)
        bm1 == IF w.setbit THEN SetBit(bitmap, h, i, f = "set_bit") ELSE bitmap
        rec == fileUpload[<<h, u>>]
        base == Call("upload_chunk", u, h, i, d, tc, fn, f)
        call == [base EXCEPT !.wrote = w.wrote, !.branch = w.branch, !.puts = w.puts,
                             !.again = /\ last.op = "upload_chunk"
                                       /\ last.res = "ok"
                                       /\ <<last.u, last.h, last.i, last.d, last.tc>>
                                          = <<u, h, i, d, tc>>]
    IN  IF rows > 1
        THEN \* scalar_one_or_none raises MultipleResultsFound
             /\ last' = [call EXCEPT !.res = "multiple_rows", !.wrote = FALSE, !.puts = 0]
             /\ UNCHANGED <<fileUpload, chunkInfo, bitmap, redisMeta, tempObj,
                            docObj, kafkaTopic, primaryOrg>>
        ELSE IF w.err # "none"
        THEN /\ tempObj' = [tempObj EXCEPT ![<<h, i>>] = w.obj]
             /\ last' = [call EXCEPT !.res = w.err]
             /\ UNCHANGED <<fileUpload, chunkInfo, bitmap, redisMeta,
                            docObj, kafkaTopic, primaryOrg>>
        ELSE /\ tempObj' = [tempObj EXCEPT ![<<h, i>>] = w.obj]
             /\ bitmap' = bm1
             /\ redisMeta' = IF rec = NoRow THEN [redisMeta EXCEPT ![h] = TRUE]
                             ELSE redisMeta
             /\ IF f = "commit"
                THEN \* db.commit() raises: rollback, HTTP 500
                     /\ UNCHANGED <<fileUpload, chunkInfo>>
                     /\ last' = [call EXCEPT !.res = "db_write_failed"]
                ELSE /\ fileUpload' = [fileUpload EXCEPT ![<<h, u>>] =
                                          FileRecordAfter(rec, u, fn, tag, pub)]
                     /\ chunkInfo' = IF addRow
                                     THEN [chunkInfo EXCEPT ![<<h, i>>] = @ + 1]
                                     ELSE chunkInfo
                     /\ last' = [call EXCEPT
                                   !.ret = get_uploaded_chunks(bm1, h, tc, f = "read"),
                                   !.prog = Progress(bm1, h, tc, f = "read")]
             /\ UNCHANGED <<docObj, kafkaTopic, primaryOrg>>


(* ---------------- upload_chunk, one database step at a time ------------ *)
\* one more call, while the run is shorter than MaxCalls calls
Called(f) ==
    /\ ncalls < MaxCalls
    /\ ncalls' = ncalls + 1
    /\ clean' = (clean /\ f = "none")

\* Each request runs upload_chunk in a session of its own (autoflush off,
\* db_client.py 29-36): the rows it adds reach the tables at db.commit(), and
\* the calls of other requests run between its awaits.
IdleUpload == [pc |-> "idle", u |-> 0, h |-> 0, d |-> 0, fn |-> 0, f |-> "none",
               existing |-> FALSE, snap |-> 0, seen |-> FALSE]

\* the outcomes of db.commit() of one upload_chunk call in flight
RaceFaults == {"none", "commit"}

\* the number of file_upload rows with file_md5 h and user_id u: the table has
\* no unique key over the two columns (models/file.py 15-20)
FileRows(fu, dup, h, u) == (IF fu[<<h, u>>] # NoRow THEN 1 ELSE 0) + dup[<<h, u>>]

\* the upload_chunk calls between their first read and their return
UploadsInFlight == {i \in ChunkIdx : uploads[i].pc \in {"written", "selected"}}

\* upload_chunk, lines 182-184: file_record is set when the select found a row
SeesFileRow(n) == n = 1

\* upload_chunk lines 60-171 of the call for chunk i: the bit and the
\* chunk_info row are read, the object is written and the bit set; the new
\* chunk_info row waits in the session
UploadChunkRead(u, h, i, d, fn, f) ==
    LET isUp == GetBit(bitmap, h, i, FALSE)
        existing == chunkInfo[<<h, i>>] > 0
        w == ChunkWrite(isUp, existing, tempObj[<<h, i>>], d, "none")
    IN  /\ uploads[i].pc \in {"idle", "done", "failed"}
        /\ ncalls + Cardinality(UploadsInFlight) < MaxCalls
        /\ chunkInfo[<<h, i>>] <= 1
        /\ tempObj' = [tempObj EXCEPT ![<<h, i>>] = w.obj]
        /\ bitmap' = IF w.setbit THEN SetBit(bitmap, h, i, FALSE) ELSE bitmap
        /\ uploads' = [uploads EXCEPT ![i] =
                         [pc |-> "written", u |-> u, h |-> h, d |-> d, fn |-> fn,
                          f |-> f, existing |-> existing,
                          snap |-> FileRows(fileUpload, dupFileRows, h, u),
                          seen |-> FALSE]]
        /\ UNCHANGED <<fileUpload, chunkInfo, redisMeta, dupFileRows, last, ncalls,
                       clean>>

\* upload_chunk lines 173-208 of the call for chunk i: the select of the
\* file_upload row of (file_md5, user).  It reads the rows committed by now, or
\* those committed at the first read of the transaction (line 67): which of
\* the two is the isolation level of the database, which the code does not set.
\* scalar_one_or_none raises when there are two rows.
UploadChunkSelectFile(i) ==
    LET c == uploads[i]
    IN  /\ c.pc = "written"
        /\ \E n \in {FileRows(fileUpload, dupFileRows, c.h, c.u), c.snap} :
              IF n > 1
              THEN /\ Called(c.f)
                   /\ uploads' = [uploads EXCEPT ![i] = [IdleUpload EXCEPT !.pc = "failed",
                                                           !.u = c.u, !.h = c.h]]
                   /\ last' = [Call("upload_chunk", c.u, c.h, i, c.d, MaxChunks, c.fn, c.f)
                                  EXCEPT !.res = "multiple_rows"]
                   /\ UNCHANGED redisMeta
              ELSE /\ uploads' = [uploads EXCEPT ![i] =
                                    [c EXCEPT !.pc = "selected", !.seen = SeesFileRow(n)]]
                   /\ redisMeta' = IF SeesFileRow(n) THEN redisMeta
                                   ELSE [redisMeta EXCEPT ![c.h] = TRUE]
                   /\ UNCHANGED <<last, ncalls, clean>>
        /\ UNCHANGED <<fileUpload, chunkInfo, bitmap, tempObj, dupFileRows, climb, listed, proc>>

\* upload_chunk lines 218-233 of the call for chunk i: db.commit() writes the
\* chunk_info row added at line 164 and the file_upload row added at line 197
\* (or the update of the row found), and the call returns
UploadChunkCommit(i) ==
    LET c == uploads[i]
        rec == fileUpload[<<c.h, c.u>>]
        call == Call("upload_chunk", c.u, c.h, i, c.d, MaxChunks, c.fn, c.f)
        ended(pc) == [IdleUpload EXCEPT !.pc = pc, !.u = c.u, !.h = c.h]
    IN  /\ c.pc = "selected"
        /\ Called(c.f)
        /\ IF c.f = "commit"
           THEN /\ uploads' = [uploads EXCEPT ![i] = ended("failed")]
                /\ last' = [call EXCEPT !.res = "db_write_failed"]
                /\ UNCHANGED <<fileUpload, chunkInfo, dupFileRows, climb, listed, proc>>
           ELSE /\ uploads' = [uploads EXCEPT ![i] = ended("done")]
                /\ chunkInfo' = IF c.existing THEN chunkInfo
                                ELSE [chunkInfo EXCEPT ![<<c.h, i>>] = @ + 1]
                /\ IF c.seen \/ rec = NoRow
                   THEN /\ fileUpload' = [fileUpload EXCEPT ![<<c.h, c.u>>] =
                                            FileRecordAfter(rec, c.u, c.fn, NoTag, FALSE)]
                        /\ UNCHANGED dupFileRows
                   ELSE /\ dupFileRows' = [dupFileRows EXCEPT ![<<c.h, c.u>>] = @ + 1]
                        /\ UNCHANGED fileUpload
                /\ last' = [call EXCEPT
                              !.ret = get_uploaded_chunks(bitmap, c.h, MaxChunks, FALSE),
                              !.prog = Progress(bitmap, c.h, MaxChunks, FALSE)]
        /\ UNCHANGED <<bitmap, redisMeta, tempObj>>

\* the rows select(ChunkInfo).where(file_md5 == h) returns: their number
RECURSIVE RowCountFrom(_, _, _)
RowCountFrom(ci, h, i) ==
    IF i >= MaxChunks THEN 0 ELSE ci[<<h, i>>] + RowCountFrom(ci, h, i + 1)

ChunkRows(ci, h) == RowCountFrom(ci, h, 0)

\* the outcomes of the store calls of one get_upload_status call
StatusFaults == {"none", "set_bit", "read"}

\* get_upload_status, lines 285-290: the bitmap rebuilt from the chunk rows
\* when the Redis key is gone
RebuildBitmap(bm, ci, h, fails) ==
    IF ~Exists(bm, h, FALSE) /\ ChunkRows(ci, h) > 0 /\ ~fails
    THEN [bm EXCEPT ![h] = {i \in ChunkIdx : ci[<<h, i>>] > 0}]
    ELSE bm

\* FileService.get_upload_status(user u, file_md5 h)
GetUploadStatus(u, h, f) ==
    LET rec == fileUpload[<<h, u>>]
        total == ChunkRows(chunkInfo, h)
        bm1 == RebuildBitmap(bitmap, chunkInfo, h, f = "set_bit")
        base == Call("get_upload_status", u, h, 0, 0, total, 0, f)
        call == [base EXCEPT !.branch = IF bm1 # bitmap THEN "rebuild" ELSE "none"]
    IN  IF rec = NoRow
        THEN /\ last' = [call EXCEPT !.res = "not_found"]
             /\ UNCHANGED <<fileUpload, chunkInfo, bitmap, redisMeta, tempObj,
                            docObj, kafkaTopic, primaryOrg>>
        ELSE /\ bitmap' = bm1
             /\ last' = [call EXCEPT
                           !.ret = get_uploaded_chunks(bm1, h, total, f = "read"),
                           !.prog = Progress(bm1, h, total, f = "read")]
             /\ UNCHANGED <<fileUpload, chunkInfo, redisMeta, tempObj,
                            docObj, kafkaTopic, primaryOrg>>

(* ----------------------------- MinioClient ----------------------------- *)
\* the object at temp/{md5}/{idx} (build_temp_chunk_path), NoObj when absent
ObjAt(objs, h, i) == IF i \in ChunkIdx THEN objs[<<h, i>>] ELSE NoObj

RECURSIVE ChunkSeq(_, _, _, _)
\* the chunk objects i..total-1 in index order
ChunkSeq(objs, h, total, i) ==
    IF i >= total THEN << >>
    ELSE <<ObjAt(objs, h, i)>> \o ChunkSeq(objs, h, total, i + 1)

\* A mutation of the download-merge: the last chunk is not written.
merge_small_chunks_Short(objs, h, total, f) ==
    LET parts == ChunkSeq(objs, h, total - 1, 0)
    IN  IF f = "download" \/ \E k \in 1..Len(parts) : parts[k] = NoObj
        THEN [ok |-> FALSE, content |-> NoDoc, path |-> "small"]
        ELSE IF f = "put" THEN [ok |-> FALSE, content |-> NoDoc, path |-> "small"]
        ELSE [ok |-> TRUE, content |-> parts, path |-> "small"]

\* MinioClient._merge_small_chunks: download every chunk in index order,
\* concatenate, upload; False when a download or the upload fails
merge_small_chunks(objs, h, total, f) ==
    LET parts == ChunkSeq(objs, h, total, 0)
    IN  IF f = "download" \/ \E k \in 1..Len(parts) : parts[k] = NoObj
        THEN [ok |-> FALSE, content |-> NoDoc, path |-> "small"]
        ELSE IF f = "put" THEN [ok |-> FALSE, content |-> NoDoc, path |-> "small"]
        ELSE [ok |-> TRUE, content |-> parts, path |-> "small"]

\* MinioClient.compose_objects: the store composes the sources in order; it
\* rejects a missing source and a source other than the last one that is
\* smaller than the minimum part size
compose_objects(objs, h, total, f) ==
    LET parts == ChunkSeq(objs, h, total, 0)
    IN  IF \/ f = "compose"
           \/ \E k \in 1..Len(parts) : parts[k] = NoObj
           \/ \E k \in 1..(Len(parts) - 1) : ByteLen(parts[k]) < MIN_CHUNK_SIZE
        THEN [ok |-> FALSE, content |-> NoDoc, path |-> "compose"]
        ELSE [ok |-> TRUE, content |-> parts, path |-> "compose"]

\* A mutation of merge_chunks: a chunk 0 that cannot be stat'ed fails the merge.
merge_chunks_ProbeFails(objs, h, total, f) ==
    IF total <= 0 \/ f = "stat" \/ ObjAt(objs, h, 0) = NoObj
    THEN [ok |-> FALSE, content |-> NoDoc, path |-> "none"]
    ELSE IF ByteLen(ObjAt(objs, h, 0)) < MIN_CHUNK_SIZE
         THEN merge_small_chunks(objs, h, total, f)
         ELSE compose_objects(objs, h, total, f)

\* MinioClient.merge_chunks: the strategy chosen from the size of chunk 0;
\* path is the strategy taken ("none": the merge is not tried)
merge_chunks(objs, h, total, f) ==
    IF total <= 0 THEN [ok |-> FALSE, content |-> NoDoc, path |-> "none"]
    ELSE IF f = "stat" \/ ObjAt(objs, h, 0) = NoObj
         THEN merge_small_chunks(objs, h, total, f)
         ELSE IF ByteLen(ObjAt(objs, h, 0)) < MIN_CHUNK_SIZE
              THEN merge_small_chunks(objs, h, total, f)
              ELSE compose_objects(objs, h, total, f)

\* MinioClient.delete_prefix("temp/{md5}/"): removes every object under the
\* prefix; on S3Error it returns 0 with the objects left in place
delete_prefix(objs, h, fails) ==
    IF fails THEN objs
    ELSE [k \in DOMAIN objs |-> IF k[1] = h THEN NoObj ELSE objs[k]]

(* ------------------------ FileService.merge_file ----------------------- *)
\* the outcomes of the store calls of one merge_file call
MergeFaults == {"none", "get_bit", "stat", "download", "put", "compose",
                "delete_prefix", "commit", "clear_bitmap", "kafka"}

\* the check made on chunk 0 only
SomeBitUnset_First(bm, h, total, fails) == GetBit(bm, h, 0, fails) = 0

\* merge_file, lines 344-351: some bit of 0..total-1 reads 0
SomeBitUnset(bm, h, total, fails) ==
    \E i \in 0..(total - 1) : GetBit(bm, h, i, fails) = 0

\* merge_file, lines 311-351: the checks before the merge
MergeCheck(rec, ci, bm, h, f) ==
    IF rec = NoRow THEN "not_found"
    ELSE IF ChunkRows(ci, h) = 0 THEN "no_chunks"
    ELSE IF SomeBitUnset(bm, h, ChunkRows(ci, h), f = "get_bit") THEN "incomplete"
    ELSE "ok"

\* merge_file, lines 383-390: the message for the document_parse topic
KafkaMessage(u, h, fn, rec) ==
    [file_md5 |-> h, file_name |-> fn, storage_path |-> <<u, fn>>,
     user_id |-> u, org_tag |-> rec.org_tag, is_public |-> rec.is_public]

\* kafka_client.send_message: False (swallowed by the caller) when it fails
send_message(topic, msg, fails) == IF fails THEN topic ELSE Append(topic, msg)

\* A mutation of the reply after the send: a failed send fails the call.
SendReply_Strict(sent) == IF sent THEN "ok" ELSE "publish_failed"

\* merge_file, lines 391-408: a send that returns False or raises is logged,
\* and the call goes on to return the file URL
SendReply(sent) == "ok"

\* FileService.merge_file(user u, file_md5 h, file_name fn), as one call
MergeFile(u, h, fn, f) ==
    LET rec == fileUpload[<<h, u>>]
        chk == MergeCheck(rec, chunkInfo, bitmap, h, f)
        total == ChunkRows(chunkInfo, h)
        m == merge_chunks(tempObj, h, total, f)
        call == [Call("merge_file", u, h, 0, 0, total, fn, f)
                   EXCEPT !.branch = IF chk = "ok" THEN m.path ELSE "none"]
    IN  /\ Len(kafkaTopic) < MaxEvents
        /\ IF chk # "ok"
           THEN /\ last' = [call EXCEPT !.res = chk]
                /\ UNCHANGED <<fileUpload, chunkInfo, bitmap, redisMeta, tempObj,
                               docObj, kafkaTopic, primaryOrg>>
           ELSE IF ~m.ok
           THEN /\ last' = [call EXCEPT !.res = "merge_failed"]
                /\ UNCHANGED <<fileUpload, chunkInfo, bitmap, redisMeta, tempObj,
                               docObj, kafkaTopic, primaryOrg>>
           ELSE /\ docObj' = [docObj EXCEPT ![<<u, fn>>] = m.content]
                /\ tempObj' = delete_prefix(tempObj, h, f = "delete_prefix")
                /\ IF f = "commit"
                   THEN \* db.commit() raises: the call ends with HTTP 500
                        /\ last' = [call EXCEPT !.res = "commit_failed"]
                        /\ UNCHANGED <<fileUpload, bitmap, kafkaTopic>>
                   ELSE /\ fileUpload' = [fileUpload EXCEPT
                                             ![<<h, u>>].status = STATUS_MERGED]
                        /\ bitmap' = ClearBitmap(bitmap, h, f = "clear_bitmap")
                        /\ kafkaTopic' = send_message(kafkaTopic,
                                            KafkaMessage(u, h, fn, rec), f = "kafka")
                        /\ last' = [call EXCEPT !.wrote = TRUE,
                                                !.res = SendReply(f # "kafka")]
                /\ UNCHANGED <<chunkInfo, redisMeta, primaryOrg>>

(* ----------------------- FileService.delete_file ----------------------- *)
\* users whose role is ADMIN
AdminUsers == {u \in Users : u > 2}

\* the outcomes of the store calls of one delete_file call
DeleteFaults == {"none", "es", "remove", "commit", "redis"}

\* MinioClient.delete_file: removes the object; False with the object left
\* in place on S3Error
delete_object(docs, key, fails) ==
    IF fails THEN docs ELSE [docs EXCEPT ![key] = NoDoc]

\* what delete_file is to remove from the object store and the index is no
\* longer there: "object" the merged object or every temporary chunk, "index"
\* the document of some document_vectors row, "none" neither
AlreadyGone(rec, o, h) ==
    IF rec.status = STATUS_MERGED /\ docObj[<<o, rec.file_name>>] = NoDoc THEN "object"
    ELSE IF rec.status # STATUS_MERGED /\ \A i \in ChunkIdx : tempObj[<<h, i>>] = NoObj
    THEN "object"
    ELSE IF \E k \in DOMAIN esIndex : k[1] = h /\ docVectors[k] > 0 /\ esIndex[k] = NoEsDoc
    THEN "index"
    ELSE "none"

\* A delete_file that gives up when a target is absent.
DeleteAborts_OnAbsent(f, gone) == f = "commit" \/ gone # "none"

\* delete_file ends in its except clause: only when the commit raises; an
\* absent object or index document does not raise out of the clients
DeleteAborts(f, gone) == f = "commit"

\* FileService.delete_file(user u, file_md5 h)
DeleteFile(u, h, f) ==
    LET owners == IF u \in AdminUsers
                  THEN {v \in Users : fileUpload[<<h, v>>] # NoRow}
                  ELSE {v \in {u} : fileUpload[<<h, v>>] # NoRow}
        call == Call("delete_file", u, h, 0, 0, 0, 0, f)
    IN  IF owners = {}
        THEN /\ last' = [call EXCEPT !.res = "not_found"]
             /\ UNCHANGED <<fileUpload, chunkInfo, bitmap, redisMeta, tempObj,
                            docObj, kafkaTopic, primaryOrg, esIndex, docVectors>>
        ELSE IF Cardinality(owners) > 1
        THEN \* scalar_one_or_none raises MultipleResultsFound
             /\ last' = [call EXCEPT !.res = "multiple_rows"]
             /\ UNCHANGED <<fileUpload, chunkInfo, bitmap, redisMeta, tempObj,
                            docObj, kafkaTopic, primaryOrg, esIndex, docVectors>>
        ELSE LET o == CHOOSE v \in owners : TRUE
                 rec == fileUpload[<<h, o>>]
                 gone == AlreadyGone(rec, o, h)
                 done == [call EXCEPT !.branch = gone]
             IN  \* lines 454-470: one delete_document per document_vectors row
                 \* of the hash; a failure is logged only
                 /\ esIndex' = IF f = "es" THEN esIndex
                               ELSE [k \in DOMAIN esIndex |->
                                       IF k[1] = h /\ docVectors[k] > 0
                                       THEN NoEsDoc ELSE esIndex[k]]
                 /\ IF rec.status = STATUS_MERGED
                    THEN /\ docObj' = delete_object(docObj, <<o, rec.file_name>>,
                                                    f = "remove")
                         /\ UNCHANGED tempObj
                    ELSE /\ tempObj' = delete_prefix(tempObj, h, f = "remove")
                         /\ UNCHANGED docObj
                 /\ IF DeleteAborts(f, gone)
                    THEN \* db.commit() raises: rollback, HTTP 500
                         /\ last' = [done EXCEPT !.res = "delete_failed"]
                         /\ UNCHANGED <<fileUpload, chunkInfo, bitmap, redisMeta,
                                        docVectors>>
                    ELSE /\ fileUpload' = [fileUpload EXCEPT ![<<h, o>>] = NoRow]
                         /\ chunkInfo' = [k \in DOMAIN chunkInfo |->
                                            IF k[1] = h THEN 0 ELSE chunkInfo[k]]
                         /\ docVectors' = [k \in DOMAIN docVectors |->
                                             IF k[1] = h THEN 0 ELSE docVectors[k]]
                         /\ bitmap' = ClearBitmap(bitmap, h, f = "redis")
                         /\ redisMeta' = IF f = "redis" THEN redisMeta
                                         ELSE [redisMeta EXCEPT ![h] = FALSE]
                         /\ last' = done
                 /\ UNCHANGED <<kafkaTopic, primaryOrg>>

(* ------------------- organization tags (admin_router) ------------------ *)
\* Tag ids are 0..NumTags-1; tag 0 is the id "DEFAULT".  The ids stand for
\* strings without a comma or surrounding blanks, the ones users.org_tags
\* stores and reads back unchanged.
TagIds == 0..(NumTags - 1)

\* organization_tags has no row for the tag
NoTagRow == -2

\* the reply of the last admin call when there was none
NoAdmin == [op |-> "none", tag |-> NoTag, parent |-> NoTag, tags |-> {}]

\* A mutation of the ancestor walk: only the new parent itself is compared.
AncestorWalk_FirstOnly(tp, cur, tag, fuel) == IF cur = tag THEN "cycle" ELSE "ok"

\* update_org_tag, lines 366-379: the walk from the new parent up the parent
\* pointers.  "cycle": it met the tag; "ok": it ran off the top (or onto a
\* missing row); "diverge": it is still walking after fuel rows.
RECURSIVE AncestorWalk(_, _, _, _)
AncestorWalk(tp, cur, tag, fuel) ==
    IF cur = tag THEN "cycle"
    ELSE IF tp[cur] = NoTag THEN "ok"
    ELSE IF tp[tp[cur]] = NoTagRow THEN "ok"
    ELSE IF fuel = 0 THEN "diverge"
    ELSE AncestorWalk(tp, tp[cur], tag, fuel - 1)

\* the reply of create_org_tag(tagId t, parentTag p); p = NoTag: none given
CreateOrgTagReply(tp, t, p) ==
    IF tp[t] # NoTagRow THEN "exists"
    ELSE IF p # NoTag /\ tp[p] = NoTagRow THEN "no_parent"
    ELSE "ok"

\* the reply of update_org_tag(tag_id t, parentTag p); p = NoTag: none given
UpdateOrgTagReply(tp, t, p) ==
    IF tp[t] = NoTagRow THEN "not_found"
    ELSE IF p = NoTag THEN "ok"
    ELSE IF p = t THEN "self"
    ELSE IF tp[p] = NoTagRow THEN "no_parent"
    ELSE AncestorWalk(tp, p, t, NumTags)

\* the organization_tags tables: each tag has a parent, no parent, or no row
TagTables == [TagIds -> TagIds \cup {NoTag, NoTagRow}]

\* no update_org_tag call is walking
IdleClimb == [pc |-> "idle", tp |-> << >>, tag |-> NoTag, cur |-> NoTag, steps |-> 0]

\* update_org_tag(tag_id t, parentTag p) reaches line 366 over the table tp:
\* the tag and the new parent have rows and differ; current_parent = parent_tag
ClimbBegin(tp, t, p) ==
    /\ climb.pc = "idle"
    /\ tp[t] # NoTagRow /\ p # t /\ tp[p] # NoTagRow
    /\ climb' = [pc |-> "walking", tp |-> tp, tag |-> t, cur |-> p, steps |-> 0]

\* one pass of the while loop of lines 367-379: the comparison with tag_id,
\* then the select of the row of current_parent.parent_tag
ClimbStep ==
    LET tp == climb.tp
        cur == climb.cur
    IN  /\ climb.pc = "walking"
        /\ climb.steps <= NumTags
        /\ IF cur = climb.tag
           THEN climb' = [climb EXCEPT !.pc = "cycle"]
           ELSE IF tp[cur] = NoTag \/ tp[tp[cur]] = NoTagRow
           THEN climb' = [climb EXCEPT !.pc = "ok"]
           ELSE climb' = [climb EXCEPT !.cur = tp[cur], !.steps = @ + 1]

\* update_org_tag replies after the walk
ClimbReturn ==
    /\ climb.pc \in {"cycle", "ok"}
    /\ climb' = IdleClimb

\* admin_router.create_org_tag
CreateOrgTag(t, p) ==
    LET r == CreateOrgTagReply(orgTags, t, p)
    IN  /\ orgTags' = IF r = "ok" THEN [orgTags EXCEPT ![t] = p] ELSE orgTags
        /\ last' = [Call("create_org_tag", 0, 0, 0, 0, 0, 0, "none") EXCEPT !.res = r]
        /\ lastAdmin' = [op |-> "create_org_tag", tag |-> t, parent |-> p, tags |-> {}]
        /\ UNCHANGED <<fileUpload, chunkInfo, bitmap, redisMeta, tempObj, docObj,
                       kafkaTopic, primaryOrg, merges, userOrgTags, esIndex,
                       docVectors, lastSearch>>

\* admin_router.update_org_tag; a walk that never ends returns no reply, so
\* the call is not a step.  The name and the description are not in the state.
UpdateOrgTag(t, p) ==
    LET r == UpdateOrgTagReply(orgTags, t, p)
    IN  /\ r # "diverge"
        /\ orgTags' = IF r = "ok" /\ p # NoTag THEN [orgTags EXCEPT ![t] = p]
                      ELSE orgTags
        /\ last' = [Call("update_org_tag", 0, 0, 0, 0, 0, 0, "none") EXCEPT !.res = r]
        /\ lastAdmin' = [op |-> "update_org_tag", tag |-> t, parent |-> p, tags |-> {}]
        /\ UNCHANGED <<fileUpload, chunkInfo, bitmap, redisMeta, tempObj, docObj,
                       kafkaTopic, primaryOrg, merges, userOrgTags, esIndex,
                       docVectors, lastSearch>>

\* admin_router.assign_org_tags(userId u, orgTags S)
AssignOrgTags(u, S) ==
    LET r == IF \E t \in S : orgTags[t] = NoTagRow THEN "no_tag" ELSE "ok"
    IN  /\ userOrgTags' = IF r = "ok" THEN [userOrgTags EXCEPT ![u] = S]
                          ELSE userOrgTags
        /\ primaryOrg' = IF r # "ok" THEN primaryOrg
                         ELSE IF Cardinality(S) = 1
                              THEN [primaryOrg EXCEPT ![u] = CHOOSE t \in S : TRUE]
                         ELSE IF S = {} THEN [primaryOrg EXCEPT ![u] = NoTag]
                         ELSE primaryOrg
        /\ last' = [Call("assign_org_tags", u, 0, 0, 0, 0, 0, "none") EXCEPT !.res = r]
        /\ lastAdmin' = [op |-> "assign_org_tags", tag |-> NoTag, parent |-> NoTag,
                         tags |-> S]
        /\ UNCHANGED <<fileUpload, chunkInfo, bitmap, redisMeta, tempObj, docObj,
                       kafkaTopic, merges, orgTags, esIndex, docVectors, lastSearch>>

\* delete_org_tag: the users whose org_tags or primary_org name the tag
UsersUsingTag(t) == {u \in Users : t \in userOrgTags[u] \/ primaryOrg[u] = t}

\* delete_org_tag: the tags whose parent_tag is the tag
ChildrenOf(tp, t) == {c \in TagIds : tp[c] = t}

\* the file_upload rows whose org_tag is the tag
FilesUsingTag(t) == {k \in DOMAIN fileUpload :
                        fileUpload[k] # NoRow /\ fileUpload[k].org_tag = t}

\* the reply of delete_org_tag(tag_id t)
DeleteOrgTagReply(tp, t) ==
    IF tp[t] = NoTagRow THEN "not_found"
    ELSE IF UsersUsingTag(t) # {} \/ ChildrenOf(tp, t) # {} THEN "conflict"
    ELSE "ok"

\* admin_router.delete_org_tag; the foreign key of file_upload.org_tag is
\* ON DELETE SET NULL
DeleteOrgTag(t) ==
    LET r == DeleteOrgTagReply(orgTags, t)
    IN  /\ orgTags' = IF r = "ok" THEN [orgTags EXCEPT ![t] = NoTagRow] ELSE orgTags
        /\ fileUpload' = IF r = "ok"
                         THEN [k \in DOMAIN fileUpload |->
                                 IF k \in FilesUsingTag(t)
                                 THEN [fileUpload[k] EXCEPT !.org_tag = NoTag]
                                 ELSE fileUpload[k]]
                         ELSE fileUpload
        /\ last' = [Call("delete_org_tag", 0, 0, 0, 0, 0, 0, "none") EXCEPT !.res = r]
        /\ lastAdmin' = [op |-> "delete_org_tag", tag |-> t, parent |-> NoTag, tags |-> {}]
        /\ UNCHANGED <<chunkInfo, bitmap, redisMeta, tempObj, docObj, kafkaTopic,
                       primaryOrg, merges, userOrgTags, esIndex, docVectors, lastSearch>>

(* --------------------------- PermissionService ------------------------- *)
\* get_all_descendant_tags: find_children adds every child not yet in the
\* result and descends into it; the result is the least set closed under it.
RECURSIVE find_children(_, _)
find_children(tp, result) ==
    LET more == result \cup {c \in TagIds : tp[c] \in result}
    IN  IF more = result THEN result ELSE find_children(tp, more)

get_all_descendant_tags(tp, t) == find_children(tp, {t})

\* get_user_accessible_tags for a user whose org_tags hold the tags userTags
get_user_accessible_tags(tp, userTags) ==
    {DEFAULT_TAG} \cup userTags
                  \cup UNION {get_all_descendant_tags(tp, t) : t \in userTags}

\* A mutation of the filter list: the clause for public documents is left out.
build_elasticsearch_permission_filters_NoPublic(user_id, accessible_tags) ==
    LET org_tags == accessible_tags \ {DEFAULT_TAG}
    IN  << [field |-> "user_id", values |-> {user_id}],
           [field |-> "org_tag", values |-> {DEFAULT_TAG}] >>
        \o (IF org_tags # {} THEN << [field |-> "org_tag", values |-> org_tags] >>
            ELSE << >>)

\* build_elasticsearch_permission_filters (include_default = True): the list
\* of term(s) clauses, each the field and the values it accepts
build_elasticsearch_permission_filters(user_id, accessible_tags) ==
    LET org_tags == accessible_tags \ {DEFAULT_TAG}
    IN  << [field |-> "user_id", values |-> {user_id}],
           [field |-> "is_public", values |-> {TRUE}],
           [field |-> "org_tag", values |-> {DEFAULT_TAG}] >>
        \o (IF org_tags # {} THEN << [field |-> "org_tag", values |-> org_tags] >>
            ELSE << >>)

(* ----------------------------- SearchService --------------------------- *)
\* A query builder that drops the permission clauses.
PermissionFilter_MatchAll(filters) == [all |-> TRUE, should |-> << >>]

\* build_hybrid_query, lines 250-264: the filter part of the query
PermissionFilter(filters) ==
    IF Len(filters) = 0 THEN [all |-> TRUE, should |-> << >>]
    ELSE [all |-> FALSE, should |-> filters]

\* hybrid_search, lines 360-366: the filter part of the keyword-only query
FallbackFilter(filters) == [all |-> FALSE, should |-> filters]

\* the engine: a term(s) clause on a keyword, long or boolean field matches a
\* document whose field holds one of the values
MatchClause(c, doc) ==
    CASE c.field = "user_id" -> doc.user_id \in c.values
      [] c.field = "is_public" -> doc.is_public \in c.values
      [] c.field = "org_tag" -> doc.org_tag \in c.values

\* the engine: match_all, or a bool.should with minimum_should_match 1
MatchFilter(flt, doc) ==
    flt.all \/ \E k \in 1..Len(flt.should) : MatchClause(flt.should[k], doc)

\* the ids <<file_md5, chunk_id>> of the indexed documents a filter lets
\* through; the script_score clause of the hybrid query is over match_all and
\* the keyword-only query is taken to match the text of every document
Hits(idx, flt) == {k \in DOMAIN idx : idx[k] # NoEsDoc /\ MatchFilter(flt, idx[k])}

SearchFaults == {"none", "index", "embed", "es_hybrid", "es_down"}

NoSearch == [u |-> 0, res |-> "none", accessible |-> {}, queries |-> << >>,
             ret |-> {}, error |-> FALSE]

\* whether hybrid_search ends by raising to its caller: the exits of lines
\* 303-304 (no index), 313-315 (no query vector) and 382-414 (no answer of
\* the engine) are each "return []", and the last exit returns the results
SearchRaises(res) == FALSE

\* es_client.search, lines 228-237: the answer of the engine, or "None" when
\* the engine call raises; the exception never leaves the client.  Fault
\* "es_hybrid": the engine rejects the hybrid query only; "es_down": the
\* engine answers no query.
es_search(kind, f) ==
    IF f = "es_down" \/ (f = "es_hybrid" /\ kind = "hybrid") THEN "None"
    ELSE "answer"

\* the file names hybrid_search may attach to the hits of hash h from the
\* file_upload rows with the hash (whichever row the dict keeps); with no
\* row a hit keeps its indexed name
NameChoices(h) ==
    LET owners == {u \in Users : fileUpload[<<h, u>>] # NoRow}
    IN  IF owners # {} THEN {fileUpload[<<h, u>>].file_name : u \in owners}
        ELSE FileNames

\* SearchService.hybrid_search(user u with users.org_tags = org_tags, a
\* non-empty query text).  Faults:
\* "index": ensure_index_exists fails; "embed": embed_query returns None; the
\* engine faults of es_search.  The keyword-only query of lines 343-380 is
\* sent when the first es_client.search raises.
HybridSearchAs(u, org_tags, f) ==
    LET acc == get_user_accessible_tags(orgTags, org_tags)
        filters == build_elasticsearch_permission_filters(u, acc)
        flt == PermissionFilter(filters)
        hybrid == [kind |-> "hybrid", filter |-> flt]
        keyword == [kind |-> "keyword", filter |-> FallbackFilter(filters)]
        count == [kind |-> "count", filter |-> [all |-> TRUE, should |-> << >>]]
        first == es_search("hybrid", f)
        raised == first = "raised"
        search_result == IF raised THEN es_search("keyword", f) ELSE first
        hits == IF search_result = "answer"
                THEN Hits(esIndex, IF raised THEN keyword.filter ELSE flt)
                ELSE {}
        res == IF f = "index" THEN "no_index"
               ELSE IF f = "embed" THEN "no_vector"
               ELSE IF search_result # "answer" THEN "no_result"
               ELSE "ok"
        queries == IF res \in {"no_index", "no_vector"} THEN << >>
                   ELSE <<hybrid>> \o (IF raised THEN <<keyword>> ELSE << >>)
                                   \o (IF hits = {} THEN <<count>> ELSE << >>)
        hit(h) == res = "ok" /\ \E k \in hits : k[1] = h
        inDb(h) == \E o \in Users : fileUpload[<<h, o>>] # NoRow
    IN  \E names \in [Hashes -> FileNames] :
          /\ \A h \in Hashes : hit(h) /\ inDb(h) => names[h] \in NameChoices(h)
          /\ \A h \in Hashes : ~(hit(h) /\ inDb(h)) => names[h] = 1
          /\ lastSearch' =
                [u |-> u, res |-> res,
                 accessible |-> IF res \in {"no_index", "no_vector"} THEN {} ELSE acc,
                 queries |-> queries,
                 error |-> SearchRaises(res),
                 ret |-> IF res = "ok"
                         THEN {[file_md5 |-> k[1], chunk_id |-> k[2],
                                file_name |-> IF inDb(k[1]) THEN names[k[1]]
                                              ELSE esIndex[k].file_name]
                                 : k \in hits}
                         ELSE {}]
          /\ last' = [Call("hybrid_search", u, 0, 0, 0, 0, 0, f) EXCEPT !.res = res]
          /\ UNCHANGED <<fileUpload, chunkInfo, bitmap, redisMeta, tempObj, docObj,
                         kafkaTopic, primaryOrg, merges, orgTags, userOrgTags,
                         esIndex, docVectors, lastAdmin>>

\* hybrid_search called for a user of the modelled accounts: user.org_tags is
\* the column of the user's row
HybridSearch(u, f) == HybridSearchAs(u, userOrgTags[u], f)

(* ------------------- FileService.get_accessible_files ------------------ *)
\* before the first get_accessible_files call
NoListing == [u |-> 0, org_tags |-> {}, files |-> {}]

\* get_accessible_files, lines 514-545: the keys of the file_upload rows the
\* query selects for user u whose org_tags column lists org_tags; an
\* administrator gets every row
get_accessible_files(rows, u, org_tags) ==
    IF u \in AdminUsers THEN {k \in DOMAIN rows : rows[k] # NoRow}
    ELSE {k \in DOMAIN rows :
             /\ rows[k] # NoRow
             /\ \/ k[2] = u
                \/ rows[k].is_public
                \/ org_tags # {} /\ rows[k].org_tag \in org_tags}

\* the call GET /files/accessible ends in
GetAccessibleFiles(u, org_tags) ==
    /\ listed' = [u |-> u, org_tags |-> org_tags,
                  files |-> get_accessible_files(fileUpload, u, org_tags)]
    /\ last' = Call("get_accessible_files", u, 0, 0, 0, 0, 0, "none")
    /\ UNCHANGED <<fileUpload, chunkInfo, bitmap, redisMeta, tempObj, docObj,
                   kafkaTopic, primaryOrg, merges, orgTags, userOrgTags, esIndex,
                   docVectors, lastAdmin, lastSearch>>

(* ----------------------- DocumentProcessorService ---------------------- *)
ProcessFaults == {"none", "download", "parse", "embed", "embed_first", "index",
                  "index_first", "commit"}

\* the number of windows split_text_into_chunks cuts the text of an object into
RECURSIVE NumWindows(_)
NumWindows(content) ==
    IF content = << >> THEN 0 ELSE Head(content) + NumWindows(Tail(content))

\* A mutation of the result of process_document: every attempt that reaches
\* the index writes counts as a success.
ProcessSuccess_Always(success_count) == TRUE

\* process_document, line 320: the result after the index writes
ProcessSuccess(success_count) == success_count > 0

\* process_document for a message (the values of its fields).  Faults:
\* "download": the object cannot be read; "parse": no text comes out of the
\* file; "embed": every vector of embed_batch is None; "embed_first": the
\* vector of window 0 is None; "index": every index_document returns None;
\* "index_first": the one of window 0 does; "commit": db.commit() raises
\* after the index writes.  Windows with a vector get a document_vectors row,
\* committed whatever index_document returned.
ProcessDocument(msg, f) ==
    LET h == msg.file_md5
        rec == fileUpload[<<h, msg.user_id>>]
        content == docObj[msg.storage_path]
        windows == 0..(NumWindows(content) - 1)
        embedded == IF f = "embed" THEN {}
                    ELSE IF f = "embed_first" THEN windows \ {0}
                    ELSE windows
        indexed == IF f = "index" THEN {}
                   ELSE IF f = "index_first" THEN embedded \ {0}
                   ELSE embedded
        res == IF f = "download" \/ content = NoDoc THEN "no_file"
               ELSE IF f = "parse" \/ windows = {} THEN "no_text"
               ELSE IF embedded = {} THEN "no_vector"
               ELSE IF rec = NoRow THEN "no_record"
               ELSE IF f = "commit" THEN "commit_failed"
               ELSE IF ProcessSuccess(Cardinality(indexed)) THEN "ok"
               ELSE "not_indexed"
        org_tag == IF msg.org_tag # NoTag THEN msg.org_tag
                   ELSE IF rec.org_tag # NoTag THEN rec.org_tag
                   ELSE DEFAULT_TAG
        written == res \in {"ok", "not_indexed"}
    IN  /\ esIndex' = IF written \/ res = "commit_failed"
                      THEN [k \in DOMAIN esIndex |->
                              IF k[1] = h /\ k[2] \in indexed
                              THEN [user_id |-> msg.user_id, org_tag |-> org_tag,
                                    is_public |-> msg.is_public,
                                    file_name |-> msg.file_name]
                              ELSE esIndex[k]]
                      ELSE esIndex
        /\ docVectors' = IF written
                         THEN [k \in DOMAIN docVectors |->
                                 IF k[1] = h /\ k[2] \in embedded
                                 THEN docVectors[k] + 1 ELSE docVectors[k]]
                         ELSE docVectors
        /\ last' = [Call("process_document", msg.user_id, h, 0, 0, 0, msg.file_name, f)
                      EXCEPT !.res = res, !.ret = <<Cardinality(indexed)>>]
        /\ UNCHANGED <<fileUpload, chunkInfo, bitmap, redisMeta, tempObj, docObj,
                       kafkaTopic, primaryOrg, merges, orgTags, userOrgTags,
                       lastAdmin, lastSearch>>

(* --------------- process_document, one store step at a time ----------- *)
\* no process_document call is in flight
IdleProcess == [pc |-> "idle", u |-> 0, h |-> 0, fn |-> 0, org_tag |-> NoTag,
                is_public |-> FALSE, windows |-> {}]

\* process_document, lines 207-272, with every store answering: the object
\* is read and cut into windows, every window gets a vector, the file_upload
\* row is found and the tag and the flag of the windows are fixed.  A call
\* that ends before line 272 is the call ProcessDocument describes.
ProcessLookup(msg) ==
    LET rec == fileUpload[<<msg.file_md5, msg.user_id>>]
        content == docObj[msg.storage_path]
    IN  /\ proc.pc = "idle"
        /\ content # NoDoc
        /\ NumWindows(content) > 0
        /\ rec # NoRow
        /\ proc' = [pc |-> "found", u |-> msg.user_id, h |-> msg.file_md5,
                    fn |-> msg.file_name,
                    org_tag |-> IF msg.org_tag # NoTag THEN msg.org_tag
                                ELSE IF rec.org_tag # NoTag THEN rec.org_tag
                                ELSE DEFAULT_TAG,
                    is_public |-> msg.is_public,
                    windows |-> 0..(NumWindows(content) - 1)]
        /\ UNCHANGED <<fileUpload, chunkInfo, bitmap, redisMeta, tempObj, docObj,
                       kafkaTopic, primaryOrg, last, merges, orgTags, userOrgTags,
                       esIndex, docVectors, lastAdmin, lastSearch>>

\* lines 275-312: a DocumentVector is added to the session and the window is
\* written to the index, window after window; the rows stay in the session
ProcessIndex ==
    /\ proc.pc = "found"
    /\ esIndex' = [k \in DOMAIN esIndex |->
                     IF k[1] = proc.h /\ k[2] \in proc.windows
                     THEN [user_id |-> proc.u, org_tag |-> proc.org_tag,
                           is_public |-> proc.is_public, file_name |-> proc.fn]
                     ELSE esIndex[k]]
    /\ proc' = [proc EXCEPT !.pc = "indexed"]
    /\ UNCHANGED <<fileUpload, chunkInfo, bitmap, redisMeta, tempObj, docObj,
                   kafkaTopic, primaryOrg, last, merges, orgTags, userOrgTags,
                   docVectors, lastAdmin, lastSearch>>

\* lines 315-329: db.commit() inserts the rows of the session.  The rows
\* refer to file_upload.file_md5 (models/file.py line 60): when the
\* file_upload row has been deleted meanwhile the insert is refused and the
\* call rolls back and returns False, unless the database does not enforce
\* the key; the documents written to the index stay in both cases.
ProcessCommit(enforced) ==
    LET gone == \A o \in Owners : fileUpload[<<proc.h, o>>] = NoRow
        res == IF gone /\ enforced THEN "commit_failed" ELSE "ok"
    IN  /\ proc.pc = "indexed"
        /\ docVectors' = IF res = "ok"
                         THEN [k \in DOMAIN docVectors |->
                                 IF k[1] = proc.h /\ k[2] \in proc.windows
                                 THEN docVectors[k] + 1 ELSE docVectors[k]]
                         ELSE docVectors
        /\ last' = [Call("process_document", proc.u, proc.h, 0, 0, 0, proc.fn, "none")
                      EXCEPT !.res = res, !.ret = <<Cardinality(proc.windows)>>]
        /\ proc' = IdleProcess
        /\ UNCHANGED <<fileUpload, chunkInfo, bitmap, redisMeta, tempObj, docObj,
                       kafkaTopic, primaryOrg, merges, orgTags, userOrgTags,
                       esIndex, lastAdmin, lastSearch>>

(* --------------- DocumentProcessorService, message by message ---------- *)
\* handle_kafka_message, line 377: max_retries
MAX_RETRIES == 3

\* the consumer before its first message: offset is the position in the topic
\* of the message it takes next, results the outcomes of the process_document
\* attempts for the message in hand (or for the last one handled)
IdleConsumer == [pc |-> "idle", offset |-> 1, retry_count |-> 0, results |-> << >>,
                 success |-> FALSE]

\* handle_kafka_message, lines 349-365: the fields that have to be there
RequiredFields == {"file_md5", "file_name", "storage_path", "user_id"}

MissingFields(msg) == RequiredFields \ DOMAIN msg

\* a message of another producer: a merge_file message without field fld
DropField(msg, fld) == [x \in DOMAIN msg \ {fld} |-> msg[x]]

\* A mutation of the retry loop: it goes on while attempts are left.
KeepTrying_AfterSuccess(retry_count, success) == retry_count < MAX_RETRIES

\* handle_kafka_message, line 381: the condition of the retry loop
KeepTrying(retry_count, success) == retry_count < MAX_RETRIES /\ ~success

\* A mutation of the validation: a message with missing fields is processed.
Validate_Lenient(msg) == TRUE

\* handle_kafka_message, lines 356-369: no required field is missing
Validate(msg) == MissingFields(msg) = {}

\* A consumer that stays on a message whose handling failed.
AfterCallback_StopOnFailure(offset, ok) == IF ok THEN offset + 1 ELSE offset

\* consume_messages, lines 241-256: after the callback has returned, True or
\* False, or has raised, the loop takes the next message of the topic
AfterCallback(offset, ok) == offset + 1

\* handle_kafka_message, lines 341-379: the consumer hands the next message of
\* the topic to the handler, which validates it; an invalid message is done
\* with (the handler returns False, the consumer goes on)
HandleBegin ==
    LET msg == kafkaTopic[consumer.offset]
        valid == Validate(msg)
    IN  /\ consumer.pc = "idle"
        /\ consumer.offset <= Len(kafkaTopic)
        /\ consumer' = [pc |-> IF valid THEN "run" ELSE "idle",
                        offset |-> IF valid THEN consumer.offset
                                   ELSE AfterCallback(consumer.offset, FALSE),
                        retry_count |-> 0, results |-> << >>, success |-> FALSE]
        /\ last' = [Call("handle_kafka_message", 0, 0, 0, 0, 0, 0, "none")
                      EXCEPT !.res = IF valid THEN "valid" ELSE "invalid"]
        /\ UNCHANGED <<fileUpload, chunkInfo, bitmap, redisMeta, tempObj, docObj,
                       kafkaTopic, primaryOrg, merges, orgTags, userOrgTags, esIndex,
                       docVectors, lastAdmin, lastSearch>>

\* handle_kafka_message, lines 381-411: one pass of the retry loop, from
\* process_document to the sleep before the next pass or to the return.  A
\* process_document that raises counts like one that returns False.
HandleAttempt(f) ==
    /\ consumer.pc = "run"
    /\ MissingFields(kafkaTopic[consumer.offset]) = {}
    /\ ProcessDocument(kafkaTopic[consumer.offset], f)
    /\ LET success == last'.res = "ok"
           retry_count == IF success THEN consumer.retry_count
                          ELSE consumer.retry_count + 1
           again == KeepTrying(retry_count, success)
       IN  consumer' = [pc |-> IF again THEN "run" ELSE "idle",
                        offset |-> IF again THEN consumer.offset
                                   ELSE AfterCallback(consumer.offset, success),
                        retry_count |-> retry_count,
                        results |-> Append(consumer.results, success),
                        success |-> success]

\* a producer other than merge_file puts a message without one of the
\* required fields on the topic
SendForeign(u, h, fn, fld) ==
    /\ Len(kafkaTopic) < MaxEvents
    /\ kafkaTopic' = Append(kafkaTopic,
                            DropField(KafkaMessage(u, h, fn,
                                        [org_tag |-> NoTag, is_public |-> FALSE]), fld))
    /\ last' = Call("send_foreign", u, h, 0, 0, 0, fn, "none")
    /\ UNCHANGED <<fileUpload, chunkInfo, bitmap, redisMeta, tempObj, docObj,
                   primaryOrg, merges, orgTags, userOrgTags, esIndex, docVectors,
                   lastAdmin, lastSearch, consumer>>

(* ------------------- split_text_into_chunks ---------------------------- *)
\* the characters of a text: two that strip() keeps and one that it removes
Chars == {"a", "b", " "}
Whitespace == {" "}

\* the texts, window sizes and overlaps the splitter is called with
Texts == UNION {[1..n -> Chars] : n \in 0..MaxLen}
WindowSizes == 1..MaxWindow
Overlaps == 0..MaxWindow

Max(a, b) == IF a >= b THEN a ELSE b
Min(a, b) == IF a <= b THEN a ELSE b

\* text[start:end] of Python
PyIndex(i, n) == IF i < 0 THEN Max(i + n, 0) ELSE Min(i, n)
Slice(text, start, end) ==
    SubSeq(text, PyIndex(start, Len(text)) + 1, PyIndex(end, Len(text)))

RECURSIVE lstrip(_)
lstrip(text) ==
    IF text = << >> THEN text
    ELSE IF Head(text) \in Whitespace THEN lstrip(Tail(text)) ELSE text

RECURSIVE rstrip(_)
rstrip(text) ==
    IF text = << >> THEN text
    ELSE IF text[Len(text)] \in Whitespace THEN rstrip(SubSeq(text, 1, Len(text) - 1))
    ELSE text

\* str.strip()
strip(text) == rstrip(lstrip(text))

\* the splitter before its first call
IdleSplit == [pc |-> "idle", text |-> << >>, chunk_size |-> 1, chunk_overlap |-> 0,
              start |-> 0, chunk_id |-> 0, iteration |-> 0, max_iterations |-> 0,
              chunks |-> << >>]

\* the start of the next window, without the step that forces progress
NextStart_NoGuard(start, end, chunk_size, chunk_overlap) == end - chunk_overlap

\* the start of the next window
NextStart(start, end, chunk_size, chunk_overlap) ==
    LET next_start == end - chunk_overlap
    IN  IF next_start <= start THEN start + Max(1, chunk_size - chunk_overlap)
        ELSE next_start

\* the loop goes on
SplitGoesOn == split.start < Len(split.text) /\ split.iteration < split.max_iterations

\* split_text_into_chunks(text) is called: an empty text returns at once
SplitBegin(text, chunk_size, chunk_overlap) ==
    /\ split.pc = "idle"
    /\ split' = [pc |-> IF text = << >> THEN "done" ELSE "loop",
                 text |-> text, chunk_size |-> chunk_size, chunk_overlap |-> chunk_overlap,
                 start |-> 0, chunk_id |-> 0, iteration |-> 0,
                 max_iterations |-> IF text = << >> THEN 0
                                    ELSE (Len(text) \div Max(1, chunk_size - chunk_overlap)) + 10,
                 chunks |-> << >>]

\* one pass of the loop
SplitStep ==
    /\ split.pc = "loop" /\ SplitGoesOn
    /\ LET end == Min(split.start + split.chunk_size, Len(split.text))
           chunk_text == strip(Slice(split.text, split.start, end))
       IN  split' = [split EXCEPT
              !.iteration = @ + 1,
              !.chunks = IF chunk_text # << >>
                         THEN Append(@, [chunk_id |-> split.chunk_id, text |-> chunk_text])
                         ELSE @,
              !.chunk_id = IF chunk_text # << >> THEN @ + 1 ELSE @,
              !.start = NextStart(split.start, end, split.chunk_size, split.chunk_overlap)]

\* the loop ends and the chunks are returned
SplitReturn ==
    /\ split.pc = "loop" /\ ~SplitGoesOn
    /\ split' = [split EXCEPT !.pc = "done"]

(* ------------- get_user_accessible_tags, step by step ------------------ *)
\* the parent_tag column of organization_tags, every tag with a row: any
\* assignment of a parent or of none, the ones with a cycle included
Hierarchies == [TagIds -> TagIds \cup {NoTag}]

\* the walk before its first call
IdleWalk == [pc |-> "idle", tp |-> [t \in TagIds |-> NoTag], user_tags |-> {},
             pending |-> {}, accessible_tags |-> {}, result_tags |-> {},
             stack |-> << >>]

\* A check that takes every child for visited.
Unvisited_Never(child, result_tags) == FALSE

\* find_children: the child is not in result_tags yet
Unvisited(child, result_tags) == child \notin result_tags

\* get_user_accessible_tags(user) is called: DEFAULT is added
AccessBegin(tp, S) ==
    /\ walk.pc = "idle"
    /\ walk' = [IdleWalk EXCEPT !.pc = "tags", !.tp = tp, !.user_tags = S,
                                !.pending = S, !.accessible_tags = {DEFAULT_TAG}]

\* the loop over the user's tags: the next tag is added and
\* get_all_descendant_tags starts with result_tags = {tag_id} and the first
\* find_children call; after the last tag the set is returned
AccessNextTag ==
    /\ walk.pc = "tags"
    /\ IF walk.pending = {}
       THEN walk' = [walk EXCEPT !.pc = "done"]
       ELSE \E tag_id \in walk.pending :
              walk' = [walk EXCEPT
                 !.pc = "descend",
                 !.pending = @ \ {tag_id},
                 !.accessible_tags = @ \cup {tag_id},
                 !.result_tags = {tag_id},
                 !.stack = <<[parent_id |-> tag_id,
                              children |-> ChildrenOf(walk.tp, tag_id)]>>]

\* find_children, one pass of its loop: a child not seen yet is added and
\* find_children is called for it
AccessChild ==
    /\ walk.pc = "descend"
    /\ walk.stack[Len(walk.stack)].children # {}
    /\ \E child \in walk.stack[Len(walk.stack)].children :
         LET n == Len(walk.stack)
             rest == [walk.stack EXCEPT ![n].children = @ \ {child}]
         IN  IF Unvisited(child, walk.result_tags)
             THEN walk' = [walk EXCEPT
                     !.result_tags = @ \cup {child},
                     !.stack = Append(rest, [parent_id |-> child,
                                             children |-> ChildrenOf(walk.tp, child)])]
             ELSE walk' = [walk EXCEPT !.stack = rest]

\* find_children returns; when the first call returns, result_tags is added
\* to the accessible tags
AccessReturn ==
    /\ walk.pc = "descend"
    /\ walk.stack[Len(walk.stack)].children = {}
    /\ IF Len(walk.stack) = 1
       THEN walk' = [walk EXCEPT !.pc = "tags", !.stack = << >>,
                                 !.accessible_tags = @ \cup walk.result_tags]
       ELSE walk' = [walk EXCEPT !.stack = SubSeq(@, 1, Len(@) - 1)]

(* ------------------- the upload service, call by call ------------------ *)
\* a worker with no merge_file call in flight
IdleMerge == [pc |-> "idle", u |-> 0, h |-> 0, fn |-> 0, total |-> 0, rec |-> NoRow,
              conc |-> FALSE, res |-> "none"]

Init ==
    /\ fileUpload = [k \in AllHashes \X Owners |-> NoRow]
    /\ chunkInfo = [k \in AllHashes \X ChunkIdx |-> 0]
    /\ bitmap = [h \in AllHashes |-> {}]
    /\ redisMeta = [h \in AllHashes |-> FALSE]
    /\ tempObj = [k \in AllHashes \X ChunkIdx |-> NoObj]
    /\ docObj = [k \in Owners \X FileNames |-> NoDoc]
    /\ kafkaTopic = << >>
    /\ primaryOrg = [u \in Owners |-> NoTag]
    /\ last = NoCall
    /\ ncalls = 0
    /\ clean = TRUE
    /\ merges = [w \in Workers |-> IdleMerge]
    /\ orgTags = [t \in TagIds |-> NoTagRow]
    /\ userOrgTags = [u \in Owners |-> {}]
    /\ esIndex = [k \in AllHashes \X WindowIdx |-> NoEsDoc]
    /\ docVectors = [k \in AllHashes \X WindowIdx |-> 0]
    /\ lastAdmin = NoAdmin
    /\ lastSearch = NoSearch
    /\ consumer = IdleConsumer
    /\ split = IdleSplit
    /\ walk = IdleWalk
    /\ uploads = [i \in ChunkIdx |-> IdleUpload]
    /\ dupFileRows = [k \in AllHashes \X Owners |-> 0]
    /\ climb = IdleClimb
    /\ listed = NoListing
    /\ proc = IdleProcess

\* the cache drops the bitmap key of a file (eviction, restart)
EvictBitmap(h) ==
    /\ bitmap[h] # {}
    /\ bitmap' = [bitmap EXCEPT ![h] = {}]
    /\ last' = Call("evict_bitmap", 0, h, 0, 0, 0, 0, "none")
    /\ UNCHANGED <<fileUpload, chunkInfo, redisMeta, tempObj, docObj, kafkaTopic,
                   primaryOrg>>

\* the object store no longer has a temporary chunk (removed out of band,
\* expired)
LoseChunk(h, i) ==
    /\ tempObj[<<h, i>>] # NoObj
    /\ tempObj' = [tempObj EXCEPT ![<<h, i>>] = NoObj]
    /\ last' = Call("lose_chunk", 0, h, i, 0, 0, 0, "none")
    /\ UNCHANGED <<fileUpload, chunkInfo, bitmap, redisMeta, docObj, kafkaTopic,
                   primaryOrg>>

\* the object store no longer has a merged object
LoseDocument(u, fn) ==
    /\ docObj[<<u, fn>>] # NoDoc
    /\ docObj' = [docObj EXCEPT ![<<u, fn>>] = NoDoc]
    /\ last' = Call("lose_document", u, 0, 0, 0, 0, fn, "none")
    /\ UNCHANGED <<fileUpload, chunkInfo, bitmap, redisMeta, tempObj, kafkaTopic,
                   primaryOrg>>

\* total_chunks as the client sends it: not given (0) or the file's chunk count
TotalArgs == {0, MaxChunks}

DoUploadChunk ==
    \E u \in Users, h \in Hashes, i \in ChunkIdx, d \in Data, tc \in TotalArgs,
       fn \in FileNames, f \in UploadFaults :
        Called(f) /\ UploadChunk(u, h, i, d, tc, fn, NoTag, FALSE, f) /\ UNCHANGED <<merges, searchVars>>

DoGetUploadStatus ==
    \E u \in Users, h \in Hashes, f \in StatusFaults :
        Called(f) /\ GetUploadStatus(u, h, f) /\ UNCHANGED <<merges, searchVars>>

DoMergeFile ==
    \E u \in Users, h \in Hashes, fn \in FileNames, f \in MergeFaults :
        Called(f) /\ MergeFile(u, h, fn, f) /\ UNCHANGED <<merges, searchVars>>

DoDeleteFile ==
    \E u \in Users, h \in Hashes, f \in DeleteFaults :
        /\ Called(f) /\ DeleteFile(u, h, f)
        /\ UNCHANGED <<merges, orgTags, userOrgTags, lastAdmin, lastSearch, consumer, split, walk, uploads, dupFileRows, climb, listed, proc>>

DoEvictBitmap ==
    \E h \in Hashes : Called("none") /\ EvictBitmap(h) /\ UNCHANGED <<merges, searchVars>>

NextUpload ==
    \/ DoUploadChunk
    \/ DoGetUploadStatus
    \/ DoMergeFile
    \/ DoDeleteFile
    \/ DoEvictBitmap

SpecUpload == Init /\ [][NextUpload]_vars


(* ------------- merge_file calls in flight at the same time ------------- *)
\* A merge_file call gives up control at each await.  Its steps here: the
\* selects and the bitmap reads (lines 311-351); the MinIO calls, which are
\* synchronous and so run without another request in between (353-373); the
\* commit (375-377); the bitmap deletion (380); the send (382-400).

\* worker w has a merge_file call for (h, u) past its checks and not returned
InFlight(w, h, u) ==
    /\ merges[w].pc \in {"merge", "commit", "clear", "send"}
    /\ merges[w].h = h /\ merges[w].u = u

\* merge_file, lines 311-351, by worker w
MergeBegin(w, u, h, fn) ==
    LET rec == fileUpload[<<h, u>>]
        chk == MergeCheck(rec, chunkInfo, bitmap, h, "none")
        others == {x \in Workers \ {w} : InFlight(x, h, u)}
    IN  /\ merges[w].pc = "idle"
        /\ Len(kafkaTopic) < MaxEvents
        /\ merges' = [x \in Workers |->
                        IF x = w
                        THEN [pc |-> IF chk = "ok" THEN "merge" ELSE "done",
                              u |-> u, h |-> h, fn |-> fn,
                              total |-> ChunkRows(chunkInfo, h), rec |-> rec,
                              conc |-> chk = "ok" /\ others # {}, res |-> chk]
                        ELSE IF x \in others /\ chk = "ok"
                             THEN [merges[x] EXCEPT !.conc = TRUE]
                             ELSE merges[x]]
        /\ UNCHANGED <<fileUpload, chunkInfo, bitmap, redisMeta, tempObj, docObj,
                       kafkaTopic, primaryOrg, last, ncalls, clean>>

\* merge_file, lines 353-373, by worker w: merge_chunks, then delete_prefix
MergeObjects(w) ==
    LET c == merges[w]
        m == merge_chunks(tempObj, c.h, c.total, "none")
    IN  /\ c.pc = "merge"
        /\ IF m.ok
           THEN /\ docObj' = [docObj EXCEPT ![<<c.u, c.fn>>] = m.content]
                /\ tempObj' = delete_prefix(tempObj, c.h, FALSE)
                /\ merges' = [merges EXCEPT ![w].pc = "commit"]
           ELSE /\ merges' = [merges EXCEPT ![w].pc = "done",
                                            ![w].res = "merge_failed"]
                /\ UNCHANGED <<docObj, tempObj>>
        /\ UNCHANGED <<fileUpload, chunkInfo, bitmap, redisMeta, kafkaTopic,
                       primaryOrg, last, ncalls, clean>>

\* merge_file, lines 375-377, by worker w: status = 1, commit
MergeCommit(w) ==
    LET c == merges[w]
    IN  /\ c.pc = "commit"
        /\ fileUpload' = [fileUpload EXCEPT ![<<c.h, c.u>>].status = STATUS_MERGED]
        /\ merges' = [merges EXCEPT ![w].pc = "clear"]
        /\ UNCHANGED <<chunkInfo, bitmap, redisMeta, tempObj, docObj, kafkaTopic,
                       primaryOrg, last, ncalls, clean>>

\* merge_file, line 380, by worker w: clear_bitmap
MergeClear(w) ==
    LET c == merges[w]
    IN  /\ c.pc = "clear"
        /\ bitmap' = ClearBitmap(bitmap, c.h, FALSE)
        /\ merges' = [merges EXCEPT ![w].pc = "send"]
        /\ UNCHANGED <<fileUpload, chunkInfo, redisMeta, tempObj, docObj, kafkaTopic,
                       primaryOrg, last, ncalls, clean>>

\* merge_file, lines 382-408, by worker w: send_message, return
MergeSend(w) ==
    LET c == merges[w]
    IN  /\ c.pc = "send"
        /\ kafkaTopic' = send_message(kafkaTopic,
                                      KafkaMessage(c.u, c.h, c.fn, c.rec), FALSE)
        /\ merges' = [merges EXCEPT ![w].pc = "done", ![w].res = "ok"]
        /\ UNCHANGED <<fileUpload, chunkInfo, bitmap, redisMeta, tempObj, docObj,
                       primaryOrg, last, ncalls, clean>>

\* upload_chunk calls whose store calls all succeed, between the merge steps
DoUploadBetween ==
    \E u \in Users, h \in Hashes, i \in ChunkIdx, d \in Data, tc \in TotalArgs,
       fn \in FileNames :
        Called("none") /\ UploadChunk(u, h, i, d, tc, fn, NoTag, FALSE, "none")
                       /\ UNCHANGED <<merges, searchVars>>

DoMergeBegin ==
    \E w \in Workers, u \in Users, h \in Hashes, fn \in FileNames :
        MergeBegin(w, u, h, fn) /\ UNCHANGED searchVars

DoMergeObjects == \E w \in Workers : MergeObjects(w) /\ UNCHANGED searchVars

DoMergeCommit == \E w \in Workers : MergeCommit(w) /\ UNCHANGED searchVars

DoMergeClear == \E w \in Workers : MergeClear(w) /\ UNCHANGED searchVars

DoMergeSend == \E w \in Workers : MergeSend(w) /\ UNCHANGED searchVars

NextMerge ==
    \/ DoUploadBetween
    \/ DoMergeBegin
    \/ DoMergeObjects
    \/ DoMergeCommit
    \/ DoMergeClear
    \/ DoMergeSend

SpecMerge == Init /\ [][NextMerge]_vars

(* ------------------- the tag hierarchy and the filter ------------------ *)
ParentArgs == TagIds \cup {NoTag}

DoCreateOrgTag ==
    \E t \in TagIds, p \in ParentArgs :
        Called("none") /\ CreateOrgTag(t, p) /\ UNCHANGED <<consumer, split, walk, uploads, dupFileRows, climb, listed, proc>>

DoUpdateOrgTag ==
    \E t \in TagIds, p \in ParentArgs :
        Called("none") /\ UpdateOrgTag(t, p) /\ UNCHANGED <<consumer, split, walk, uploads, dupFileRows, climb, listed, proc>>

DoAssignOrgTags ==
    \E u \in Users, S \in SUBSET TagIds :
        Called("none") /\ AssignOrgTags(u, S) /\ UNCHANGED <<consumer, split, walk, uploads, dupFileRows, climb, listed, proc>>

DoHybridSearch ==
    \E u \in Users, f \in SearchFaults :
        Called(f) /\ HybridSearch(u, f) /\ UNCHANGED <<consumer, split, walk, uploads, dupFileRows, climb, listed, proc>>

NextTags ==
    \/ DoCreateOrgTag
    \/ DoUpdateOrgTag
    \/ DoAssignOrgTags
    \/ DoHybridSearch

SpecTags == Init /\ [][NextTags]_vars

(* ------------------- from the upload to the search --------------------- *)
\* uploads of one-chunk files whose store calls all succeed
DoUploadWhole ==
    \E u \in Users, h \in Hashes, d \in Data, fn \in FileNames, tag \in ParentArgs,
       pub \in BOOLEAN :
        /\ Called("none") /\ UploadChunk(u, h, 0, d, 1, fn, tag, pub, "none")
        /\ UNCHANGED <<merges, searchVars>>

DoMergeWhole ==
    \E u \in Users, h \in Hashes, fn \in FileNames :
        /\ Called("none") /\ MergeFile(u, h, fn, "none")
        /\ UNCHANGED <<merges, searchVars>>

DoProcessDocument ==
    \E k \in 1..Len(kafkaTopic), f \in ProcessFaults :
        Called(f) /\ ProcessDocument(kafkaTopic[k], f) /\ UNCHANGED <<consumer, split, walk, uploads, dupFileRows, climb, listed, proc>>

NextSearch ==
    \/ DoUploadWhole
    \/ DoMergeWhole
    \/ DoProcessDocument
    \/ DoHybridSearch

SpecSearch == Init /\ [][NextSearch]_vars

(* ------------- a search by an account other than the owner ------------ *)
\* hybrid_search by the other account, whose org_tags column lists the tags S
DoSearchByOther ==
    \E S \in SUBSET TagIds :
        /\ Called("none") /\ HybridSearchAs(OtherUser, S, "none")
        /\ UNCHANGED <<consumer, split, walk, uploads, dupFileRows, climb, listed, proc>>

NextShare ==
    \/ DoUploadWhole
    \/ DoMergeWhole
    \/ DoProcessDocument
    \/ DoHybridSearch
    \/ DoSearchByOther

SpecShare == Init /\ [][NextShare]_vars

(* ------------------ from the merge to the index ------------------------ *)
DoDeleteWhole ==
    \E u \in Users, h \in Hashes :
        /\ Called("none") /\ DeleteFile(u, h, "none")
        /\ UNCHANGED <<merges, orgTags, userOrgTags, lastAdmin, lastSearch, consumer, split, walk, uploads, dupFileRows, climb, listed, proc>>

DoSendForeign ==
    \E u \in Users, h \in Hashes, fn \in FileNames, fld \in RequiredFields :
        Called("none") /\ SendForeign(u, h, fn, fld) /\ UNCHANGED <<split, walk, uploads, dupFileRows, climb, listed, proc>>

DoHandleBegin == Called("none") /\ HandleBegin /\ UNCHANGED <<split, walk, uploads, dupFileRows, climb, listed, proc>>

\* the passes of the retry loop belong to the call that HandleBegin counted
DoHandleAttempt ==
    \E f \in ProcessFaults :
        /\ HandleAttempt(f)
        /\ clean' = (clean /\ f = "none")
        /\ UNCHANGED <<ncalls, split, walk, uploads, dupFileRows, climb, listed, proc>>

NextPipeline ==
    \/ DoUploadWhole
    \/ DoMergeWhole
    \/ DoDeleteWhole
    \/ DoSendForeign
    \/ DoHandleBegin
    \/ DoHandleAttempt

SpecPipeline == Init /\ [][NextPipeline]_vars

\* the retry loop is not held up for ever: its sleeps end
SpecPipelineFair == SpecPipeline /\ WF_vars(DoHandleAttempt)

(* ------------------ deleting what is partly gone ----------------------- *)
\* the loss of an object is not a call of the service
DoLoseChunk ==
    \E h \in Hashes, i \in ChunkIdx :
        LoseChunk(h, i) /\ UNCHANGED <<ncalls, clean, merges, searchVars>>

DoLoseDocument ==
    \E u \in Users, fn \in FileNames :
        LoseDocument(u, fn) /\ UNCHANGED <<ncalls, clean, merges, searchVars>>

NextDelete ==
    \/ DoUploadWhole
    \/ DoMergeWhole
    \/ DoProcessDocument
    \/ DoLoseChunk
    \/ DoLoseDocument
    \/ DoDeleteFile

SpecDelete == Init /\ [][NextDelete]_vars

(* ------------------ tags in use and their deletion --------------------- *)
\* an upload that names a tag names one that has a row (the foreign key of
\* file_upload.org_tag)
DoUploadTagged ==
    \E u \in Users, h \in Hashes, d \in Data, fn \in FileNames,
       tag \in {t \in TagIds : orgTags[t] # NoTagRow} \cup {NoTag} :
        /\ Called("none") /\ UploadChunk(u, h, 0, d, 1, fn, tag, FALSE, "none")
        /\ UNCHANGED <<merges, searchVars>>

DoDeleteOrgTag ==
    \E t \in TagIds : Called("none") /\ DeleteOrgTag(t) /\ UNCHANGED <<consumer, split, walk, uploads, dupFileRows, climb, listed, proc>>

NextTagUse ==
    \/ DoCreateOrgTag
    \/ DoAssignOrgTags
    \/ DoUploadTagged
    \/ DoDeleteOrgTag

SpecTagUse == Init /\ [][NextTagUse]_vars

(* ------------------ the listing of the accessible files --------------- *)
\* an upload of a public or private file under a tag that has a row, or
\* under none
DoUploadShared ==
    \E u \in Users, h \in Hashes, d \in Data, fn \in FileNames, pub \in BOOLEAN,
       tag \in {t \in TagIds : orgTags[t] # NoTagRow} \cup {NoTag} :
        /\ Called("none") /\ UploadChunk(u, h, 0, d, 1, fn, tag, pub, "none")
        /\ UNCHANGED <<merges, searchVars>>

\* get_accessible_files by the uploader
DoGetAccessibleFiles ==
    \E u \in Users :
        /\ Called("none") /\ GetAccessibleFiles(u, userOrgTags[u])
        /\ UNCHANGED <<consumer, split, walk, uploads, dupFileRows, climb, proc>>

\* get_accessible_files by the other account, whose org_tags column lists
\* tags that have a row
DoListByOther ==
    \E S \in SUBSET {t \in TagIds : orgTags[t] # NoTagRow} :
        /\ Called("none") /\ GetAccessibleFiles(OtherUser, S)
        /\ UNCHANGED <<consumer, split, walk, uploads, dupFileRows, climb, proc>>

NextListing ==
    \/ DoCreateOrgTag
    \/ DoUploadShared
    \/ DoGetAccessibleFiles
    \/ DoListByOther

SpecListing == Init /\ [][NextListing]_vars

(* ----------- delete_file while process_document is in flight ---------- *)
processRest == <<ncalls, clean, consumer, split, walk, uploads, dupFileRows, climb,
                 listed>>

DoProcessLookup ==
    /\ proc.pc = "idle"
    /\ \E k \in 1..Len(kafkaTopic) :
          Called("none") /\ ProcessLookup(kafkaTopic[k])
            /\ UNCHANGED <<consumer, split, walk, uploads, dupFileRows, climb, listed>>

DoProcessIndex == ProcessIndex /\ UNCHANGED processRest

DoProcessCommit == \E enforced \in BOOLEAN : ProcessCommit(enforced) /\ UNCHANGED processRest

NextDeleteRace ==
    \/ DoUploadWhole
    \/ DoMergeWhole
    \/ DoProcessLookup
    \/ DoProcessIndex
    \/ DoProcessCommit
    \/ DoDeleteWhole

SpecDeleteRace == Init /\ [][NextDeleteRace]_vars

(* ------------------- two files of one owner --------------------------- *)
\* uploads, merges and deletions of one-chunk files with either hash; every
\* store answers
fileRest == <<merges, orgTags, userOrgTags, lastAdmin, lastSearch, consumer, split,
              walk, uploads, dupFileRows, climb, listed, proc>>

DoUploadEither ==
    \E u \in Users, h \in AllHashes, d \in Data, fn \in FileNames :
        /\ Called("none") /\ UploadChunk(u, h, 0, d, 1, fn, NoTag, FALSE, "none")
        /\ UNCHANGED <<merges, searchVars>>

DoMergeEither ==
    \E u \in Users, h \in AllHashes, fn \in FileNames :
        /\ Called("none") /\ MergeFile(u, h, fn, "none")
        /\ UNCHANGED <<merges, searchVars>>

DoDeleteEither ==
    \E u \in Users, h \in AllHashes :
        Called("none") /\ DeleteFile(u, h, "none") /\ UNCHANGED fileRest

NextNames ==
    \/ DoUploadEither
    \/ DoMergeEither
    \/ DoDeleteEither

SpecNames == Init /\ [][NextNames]_vars

(* ------------------- two accounts and one content hash ----------------- *)
\* uploads, merges and deletions of a two-chunk file by either account
DoUploadByEither ==
    \E u \in Owners, h \in Hashes, i \in ChunkIdx, d \in Data, fn \in FileNames :
        /\ Called("none")
        /\ UploadChunk(u, h, i, d, MaxChunks, fn, NoTag, FALSE, "none")
        /\ UNCHANGED <<merges, searchVars>>

DoMergeByEither ==
    \E u \in Owners, h \in Hashes, fn \in FileNames :
        /\ Called("none") /\ MergeFile(u, h, fn, "none")
        /\ UNCHANGED <<merges, searchVars>>

DoDeleteByEither ==
    \E u \in Owners, h \in Hashes :
        Called("none") /\ DeleteFile(u, h, "none") /\ UNCHANGED fileRest

NextTwoUsers ==
    \/ DoUploadByEither
    \/ DoMergeByEither
    \/ DoDeleteByEither

SpecTwoUsers == Init /\ [][NextTwoUsers]_vars

(* ------------------ the accessible tags on their own ------------------- *)
DoAccessBegin ==
    /\ walk.pc = "idle"
    /\ \E tp \in Hierarchies, S \in SUBSET TagIds :
          AccessBegin(tp, S) /\ UNCHANGED <<storeVars, split>>

DoAccessNextTag == AccessNextTag /\ UNCHANGED <<storeVars, split>>

DoAccessChild == AccessChild /\ UNCHANGED <<storeVars, split>>

DoAccessReturn == AccessReturn /\ UNCHANGED <<storeVars, split>>

NextAccess ==
    \/ DoAccessBegin
    \/ DoAccessNextTag
    \/ DoAccessChild
    \/ DoAccessReturn

SpecAccess == Init /\ [][NextAccess]_vars

SpecAccessFair == SpecAccess /\ WF_vars(DoAccessNextTag) /\ WF_vars(DoAccessChild)
                             /\ WF_vars(DoAccessReturn)

(* ------------- the ancestor walk of update_org_tag on its own ---------- *)
climbRest == <<fileUpload, chunkInfo, bitmap, redisMeta, tempObj, docObj, kafkaTopic,
               primaryOrg, last, ncalls, clean, merges, orgTags, userOrgTags, esIndex,
               docVectors, lastAdmin, lastSearch, consumer, split, walk, uploads,
               dupFileRows, listed, proc>>

DoClimbBegin ==
    /\ climb.pc = "idle"
    /\ \E tp \in TagTables, t \in TagIds, p \in TagIds :
          ClimbBegin(tp, t, p) /\ UNCHANGED climbRest

DoClimbStep == ClimbStep /\ UNCHANGED climbRest

DoClimbReturn == ClimbReturn /\ UNCHANGED climbRest

NextClimb == DoClimbBegin \/ DoClimbStep \/ DoClimbReturn

SpecClimb == Init /\ [][NextClimb]_vars

(* ------------- upload_chunk calls of concurrent requests --------------- *)
raceRest == <<docObj, kafkaTopic, primaryOrg, merges, orgTags, userOrgTags, esIndex,
              docVectors, lastAdmin, lastSearch, consumer, split, walk, climb, listed, proc>>

DoUploadChunkRead ==
    \E u \in Users, h \in Hashes, i \in ChunkIdx, d \in Data, fn \in FileNames,
       f \in RaceFaults :
        UploadChunkRead(u, h, i, d, fn, f) /\ UNCHANGED raceRest

DoUploadChunkSelectFile ==
    \E i \in ChunkIdx : UploadChunkSelectFile(i) /\ UNCHANGED raceRest

DoUploadChunkCommit ==
    \E i \in ChunkIdx : UploadChunkCommit(i) /\ UNCHANGED raceRest

NextRace == DoUploadChunkRead \/ DoUploadChunkSelectFile \/ DoUploadChunkCommit

SpecRace == Init /\ [][NextRace]_vars

(* ------------------ the splitter on its own ---------------------------- *)
DoSplitBegin ==
    /\ split.pc = "idle"
    /\ \E text \in Texts, chunk_size \in WindowSizes, chunk_overlap \in Overlaps :
          SplitBegin(text, chunk_size, chunk_overlap) /\ UNCHANGED <<storeVars, walk>>

DoSplitStep == SplitStep /\ UNCHANGED <<storeVars, walk>>

DoSplitReturn == SplitReturn /\ UNCHANGED <<storeVars, walk>>

NextSplit ==
    \/ DoSplitBegin
    \/ DoSplitStep
    \/ DoSplitReturn

SpecSplit == Init /\ [][NextSplit]_vars

SpecSplitFair == SpecSplit /\ WF_vars(DoSplitStep) /\ WF_vars(DoSplitReturn)

(* ======================= properties of the upload service ============== *)
\* the step is a call of operation op that returned res
Returned(op, res) == ncalls' # ncalls /\ last'.op = op /\ last'.res = res

\* the set of the elements of a sequence
Range(sq) == {sq[k] : k \in 1..Len(sq)}

\* the chunk indices with a chunk_info row
RecordedIdx(ci, h) == {i \in ChunkIdx : ci[<<h, i>>] > 0}

C2_MergePrecondition ==
    [][(/\ ncalls' # ncalls /\ last'.op = "merge_file"
        /\ fileUpload[<<last'.h, last'.u>>] # NoRow
        /\ ChunkRows(chunkInfo, last'.h) >= 1
        /\ \E i \in 0..(ChunkRows(chunkInfo, last'.h) - 1) : i \notin bitmap[last'.h])
       => /\ last'.res = "incomplete"
          /\ UNCHANGED <<fileUpload, kafkaTopic, docObj, tempObj, bitmap>>]_vars

\* a merge_file refused while bit 0 was set and bit 1 was not
C2_Witness ==
    /\ last.op = "merge_file" /\ last.res = "incomplete" /\ last.fault = "none"
    /\ ChunkRows(chunkInfo, last.h) = 2
    /\ bitmap[last.h] = {0}

\* C7 as stated: with the bitmap key absent and ChunkRecord rows present,
\* get_upload_status returns exactly the recorded chunk indices (here even in
\* runs in which no store call fails).
C7_Original ==
    [][(/\ Returned("get_upload_status", "ok") /\ clean'
        /\ bitmap[last'.h] = {}
        /\ RecordedIdx(chunkInfo, last'.h) # {})
       => Range(last'.ret) = RecordedIdx(chunkInfo, last'.h)]_vars

\* C8 as stated: a set bit implies the stored chunk object, in every state
\* reached by upload_chunk, get_upload_status, merge_file and delete_file calls
\* (here even in runs in which no store call fails).
C8_Original ==
    clean => \A h \in Hashes, i \in ChunkIdx :
                 i \in bitmap[h] => tempObj[<<h, i>>] # NoObj

C10_Original ==
    [][Returned("merge_file", "ok") =>
          /\ \A i \in ChunkIdx : tempObj'[<<last'.h, i>>] = NoObj
          /\ fileUpload'[<<last'.h, last'.u>>].status = STATUS_MERGED
          /\ bitmap'[last'.h] = {}
          /\ last'.wrote]_vars


(* ================= properties of concurrent merge_file calls =========== *)
\* the events in the topic for file h of user u
EventsFor(h, u) ==
    {k \in 1..Len(kafkaTopic) :
        kafkaTopic[k].file_md5 = h /\ kafkaTopic[k].user_id = u}

\* C5 as stated: two merge_file calls for the same file hash and owner that
\* run concurrently publish at most one pipeline event.
C5_Original ==
    \A w \in Workers :
        merges[w].conc => Cardinality(EventsFor(merges[w].h, merges[w].u)) <= 1

(* ================ properties of the tags and of the search ============= *)
\* every document the index can hold, and one without an org_tag
AllDocs == [user_id : Owners, org_tag : TagIds \cup {NoTag}, is_public : BOOLEAN]

\* the tag reached from tag t by k parent pointers (NoTag past a root)
RECURSIVE ParentPow(_, _, _)
ParentPow(tp, t, k) ==
    IF k = 0 THEN t
    ELSE LET up == ParentPow(tp, t, k - 1)
         IN  IF up \in TagIds /\ tp[up] \in TagIds THEN tp[up] ELSE NoTag

\* tag a is reached from tag t by one or more parent pointers
IsAncestor(tp, a, t) == \E k \in 1..NumTags : ParentPow(tp, t, k) = a

\* no tag is its own ancestor
Acyclic(tp) == \A t \in TagIds : ~IsAncestor(tp, t, t)

\* hybrid_search returned after it built the filter
Searched == ncalls' # ncalls /\ last'.op = "hybrid_search"
                             /\ lastSearch'.queries # << >>

\* C3: the permission filter hybrid_search builds for user U matches a
\* document D if and only if U owns D, or D is public, or the org_tag of D is
\* one of the tags accessible to U; so a private document of another user
\* under a tag outside them is not matched.
C3_PermissionFilter ==
    [][Searched =>
        \A doc \in AllDocs :
            MatchFilter(lastSearch'.queries[1].filter, doc)
            <=> \/ doc.user_id = lastSearch'.u
                \/ doc.is_public
                \/ doc.org_tag \in get_user_accessible_tags(orgTags,
                                                             userOrgTags[lastSearch'.u])]_vars

\* C3 happens: a search by a user to whom a tag is accessible only as the
\* child of one of the user's tags, so that the filter matches a private
\* document of another user under the child tag and none under a third tag.
C3_Witness ==
    /\ last.op = "hybrid_search" /\ lastSearch.queries # << >>
    /\ \E t \in lastSearch.accessible \ ({DEFAULT_TAG} \cup userOrgTags[lastSearch.u]) :
          /\ orgTags[t] \in userOrgTags[lastSearch.u]
          /\ MatchFilter(lastSearch.queries[1].filter,
                         [user_id |-> NumUsers + 1, org_tag |-> t, is_public |-> FALSE])
    /\ \E t \in TagIds \ lastSearch.accessible :
          ~MatchFilter(lastSearch.queries[1].filter,
                       [user_id |-> NumUsers + 1, org_tag |-> t, is_public |-> FALSE])

\* C4: update_org_tag does not accept the tag itself or one of its descendants
\* as the new parent of a tag and leaves the hierarchy as it was; and no
\* create_org_tag or update_org_tag call leaves a cycle in the parent
\* pointers.
C4_NoCycle ==
    [][/\ (/\ ncalls' # ncalls /\ last'.op = "update_org_tag"
           /\ \/ lastAdmin'.parent = lastAdmin'.tag
              \/ IsAncestor(orgTags, lastAdmin'.tag, lastAdmin'.parent))
          => last'.res # "ok" /\ orgTags' = orgTags
       /\ Acyclic(orgTags')]_vars

\* C4 happens: update_org_tag refused to put a tag under the child of its
\* child.
C4_Witness ==
    /\ last.op = "update_org_tag" /\ last.res = "cycle"
    /\ lastAdmin.parent \in TagIds
    /\ orgTags[lastAdmin.parent] \in TagIds
    /\ orgTags[lastAdmin.parent] # lastAdmin.tag
    /\ orgTags[orgTags[lastAdmin.parent]] = lastAdmin.tag

\* C6 as stated: when the engine fails on the hybrid query, hybrid_search
\* sends a keyword-only query under the same permission clauses and returns
\* the documents it matches.
C6_Original ==
    [][(ncalls' # ncalls /\ last'.op = "hybrid_search" /\ last'.fault = "es_hybrid") =>
        /\ \E k \in 1..Len(lastSearch'.queries) :
              /\ lastSearch'.queries[k].kind = "keyword"
              /\ lastSearch'.queries[k].filter.should
                    = lastSearch'.queries[1].filter.should
        /\ {<<r.file_md5, r.chunk_id>> : r \in lastSearch'.ret}
              = Hits(esIndex, lastSearch'.queries[1].filter)]_vars

(* ==================== properties of the merged object ================== *)
\* the byte length of a sequence of chunk data written one after another
RECURSIVE SumLen(_)
SumLen(parts) ==
    IF parts = << >> THEN 0 ELSE ByteLen(Head(parts)) + SumLen(Tail(parts))

\* a merge_file call that got as far as merge_chunks
Merged == ncalls' # ncalls /\ last'.op = "merge_file"
                           /\ last'.res \in {"ok", "merge_failed", "commit_failed"}

\* C11: after a successful merge_file, by compose or by download-merge, the
\* merged object holds the chunk objects 0..totalChunks-1 in index order, and
\* its byte length is the sum of the lengths of the chunks.
C11_MergedContent ==
    [][Returned("merge_file", "ok") =>
        LET parts == ChunkSeq(tempObj, last'.h, last'.tc, 0)
            merged == docObj'[<<last'.u, last'.fn>>]
        IN  /\ last'.tc >= 1
            /\ \A k \in 1..Len(parts) : parts[k] # NoObj
            /\ merged = parts
            /\ SumLen(merged) = SumLen(parts)
            /\ Len(merged) = last'.tc]_vars

\* C11 happens: a compose merge of two chunks of different sizes, the larger
\* one first.
C11_Witness ==
    /\ last.op = "merge_file" /\ last.res = "ok" /\ last.branch = "compose"
    /\ Len(docObj[<<last.u, last.fn>>]) >= 2
    /\ docObj[<<last.u, last.fn>>][1] # docObj[<<last.u, last.fn>>][Len(docObj[<<last.u, last.fn>>])]
    /\ SumLen(docObj[<<last.u, last.fn>>]) > MIN_CHUNK_SIZE

\* C12: merge_chunks composes when chunk 0 has at least 5 MiB, downloads and
\* concatenates when chunk 0 is smaller, and downloads and concatenates as
\* well when chunk 0 cannot be stat'ed; a failed probe alone does not fail
\* the merge.
C12_MergeStrategy ==
    [][Merged =>
        LET first == ObjAt(tempObj, last'.h, 0)
            parts == ChunkSeq(tempObj, last'.h, last'.tc, 0)
        IN  /\ last'.branch = IF last'.fault = "stat" \/ first = NoObj THEN "small"
                              ELSE IF ByteLen(first) >= MIN_CHUNK_SIZE THEN "compose"
                              ELSE "small"
            /\ (last'.fault = "stat" /\ \A k \in 1..Len(parts) : parts[k] # NoObj)
                  => last'.res = "ok"]_vars

\* C12 happens: chunk 0 has the compose size but its stat fails, and the
\* merge succeeds by download.
C12_Witness ==
    /\ last.op = "merge_file" /\ last.res = "ok" /\ last.fault = "stat"
    /\ last.branch = "small"
    /\ ByteLen(docObj[<<last.u, last.fn>>][1]) >= MIN_CHUNK_SIZE

\* C13: when the send of the pipeline event fails, a merge_file call that
\* merged the chunks still returns success, the file record is marked merged
\* and the merged object is in place.
C13_PublishFailure ==
    [][(/\ ncalls' # ncalls /\ last'.op = "merge_file" /\ last'.fault = "kafka"
        /\ last'.res \notin {"not_found", "no_chunks", "incomplete", "merge_failed"}) =>
        /\ last'.res = "ok"
        /\ fileUpload'[<<last'.h, last'.u>>].status = STATUS_MERGED
        /\ docObj'[<<last'.u, last'.fn>>] # NoDoc
        /\ kafkaTopic' = kafkaTopic]_vars

\* C13 happens: a merge returned success with no event in the topic.
C13_Witness ==
    /\ last.op = "merge_file" /\ last.res = "ok" /\ last.fault = "kafka"
    /\ fileUpload[<<last.h, last.u>>].status = STATUS_MERGED
    /\ docObj[<<last.u, last.fn>>] # NoDoc
    /\ kafkaTopic = << >>

(* ================== properties of the document pipeline ================ *)
\* the outcomes of the attempts so far fit the retry loop: only the last one
\* can be a success, and the loop goes on exactly while it may
AttemptsInOrder ==
    LET n == Len(consumer.results)
    IN  /\ n <= MAX_RETRIES
        /\ \A k \in 1..(n - 1) : ~consumer.results[k]
        /\ consumer.pc = "run" =>
              /\ n = consumer.retry_count /\ n < MAX_RETRIES
              /\ \A k \in 1..n : ~consumer.results[k]
        /\ (consumer.pc = "idle" /\ n > 0) =>
              /\ consumer.success <=> consumer.results[n]
              /\ ~consumer.success => n = MAX_RETRIES

\* the handler returns for the message in hand
HandlerReturns == consumer.pc = "run" /\ consumer'.pc = "idle"

\* C14: for a well-formed message handle_kafka_message runs process_document
\* at least once and at most 3 times, stops at the first success, returns
\* False after 3 failures, and in either case the consumer moves past the
\* message, which is not put on the topic again.
C14_BoundedRetry ==
    /\ []AttemptsInOrder
    /\ [][/\ HandlerReturns =>
                /\ Len(consumer'.results) >= 1
                /\ consumer'.offset = consumer.offset + 1
                /\ kafkaTopic' = kafkaTopic
          /\ consumer'.offset >= consumer.offset]_vars
    /\ (consumer.pc = "run") ~> (consumer.pc = "idle")

\* C14 happens: a message was given up after three failed attempts.
C14_Witness ==
    /\ consumer.pc = "idle" /\ ~consumer.success
    /\ Len(consumer.results) = MAX_RETRIES
    /\ consumer.offset = Len(kafkaTopic) + 1

\* a process_document call returned
Processed == last'.op = "process_document"
                /\ (ncalls' # ncalls \/ consumer' # consumer)

\* C15: process_document returns True only if it wrote at least one window to
\* the search index; with no window indexed, because no vector came back or
\* because every index write failed, it returns False.
C15_SuccessNeedsIndexedWindow ==
    [][Processed =>
        /\ last'.res = "ok" =>
              /\ last'.ret[1] >= 1
              /\ \E k \in DOMAIN esIndex : k[1] = last'.h /\ esIndex'[k] # NoEsDoc
                                                         /\ esIndex'[k].user_id = last'.u
        /\ (last'.ret[1] = 0 \/ last'.fault \in {"embed", "index"})
              => last'.res # "ok"]_vars

\* C15 happens: of two windows one was indexed and the call returned True.
C15_Witness ==
    /\ last.op = "process_document" /\ last.res = "ok"
    /\ last.fault \in {"embed_first", "index_first"}
    /\ last.ret = <<1>>
    /\ esIndex[<<last.h, 0>>] = NoEsDoc /\ esIndex[<<last.h, 1>>] # NoEsDoc

\* C16 as stated: when the object a message names is not in the object store,
\* the handler gives the message up after the one run of process_document.
C16_Original ==
    [][(/\ consumer.pc = "run" /\ consumer' # consumer
        /\ docObj[kafkaTopic[consumer.offset].storage_path] = NoDoc) =>
        /\ consumer'.pc = "idle"
        /\ Len(consumer'.results) = 1]_vars

\* C17: a message without file_md5, file_name, storage_path or user_id is
\* dropped: the consumer moves past it with no process_document attempt and
\* no store changes.
C17_InvalidDropped ==
    [][(/\ consumer.pc = "idle" /\ consumer' # consumer
        /\ MissingFields(kafkaTopic[consumer.offset]) # {}) =>
        /\ consumer'.pc = "idle"
        /\ consumer'.offset = consumer.offset + 1
        /\ consumer'.results = << >>
        /\ last'.op = "handle_kafka_message" /\ last'.res = "invalid"
        /\ UNCHANGED <<fileUpload, chunkInfo, bitmap, redisMeta, tempObj, docObj,
                       kafkaTopic, esIndex, docVectors>>]_vars

\* C17 happens: the consumer has moved past a message without a user_id.
C17_Witness ==
    /\ last.op = "handle_kafka_message" /\ last.res = "invalid"
    /\ consumer.pc = "idle" /\ consumer.offset = 2 /\ consumer.results = << >>
    /\ "user_id" \notin DOMAIN kafkaTopic[1]

(* ====================== properties of the splitter ===================== *)
CeilDiv(a, b) == (a + b - 1) \div b

\* the splitter was called with an overlap smaller than the window
OverlapFits == split.chunk_overlap < split.chunk_size

\* C18: with window size W >= 1 and overlap 0 <= O < W a text of length L is
\* split in at most ceil(L / (W-O)) + 1 passes of the loop, the loop ends, and
\* every pass moves the start offset forward (also when O >= W).
C18_SplitTerminates ==
    /\ [](OverlapFits =>
            split.iteration <= CeilDiv(Len(split.text),
                                       split.chunk_size - split.chunk_overlap) + 1)
    /\ [][split'.iteration = split.iteration + 1 => split'.start > split.start]_vars
    /\ (split.pc = "loop") ~> (split.pc = "done" /\ split.start >= Len(split.text))

\* C18 happens: a split that ended after exactly ceil(L / (W-O)) + 1 passes,
\* the last of them forced forward by the progress step.
C18_Witness ==
    /\ split.pc = "done" /\ OverlapFits /\ split.chunk_overlap > 0
    /\ split.iteration >= 3
    /\ split.iteration = CeilDiv(Len(split.text),
                                 split.chunk_size - split.chunk_overlap) + 1

\* the windows one after another, each after the first without its first
\* overlap characters
RECURSIVE Reconstruct(_, _, _)
Reconstruct(chunks, overlap, k) ==
    IF k > Len(chunks) THEN << >>
    ELSE (IF k = 1 THEN chunks[k].text
          ELSE SubSeq(chunks[k].text, overlap + 1, Len(chunks[k].text)))
         \o Reconstruct(chunks, overlap, k + 1)

\* C19 as stated: with O < W the returned windows, in order and each after
\* the first without its first O characters, concatenate to the text.
C19_Original ==
    (split.pc = "done" /\ OverlapFits) =>
        Reconstruct(split.chunks, split.chunk_overlap, 1) = split.text

(* ================= properties of the upload reply ====================== *)
\* a sequence of integers in strictly increasing order
Sorted(sq) == \A j, k \in 1..Len(sq) : j < k => sq[j] < sq[k]

\* C20 as stated, for calls in runs where every store call succeeded: a
\* successful upload_chunk returns, in increasing order, exactly the chunk
\* indices whose bit is set in the bitmap of the file, and, when totalChunks
\* is given, a progress of (number of those indices / totalChunks) * 100.
C20_Original ==
    [][(Returned("upload_chunk", "ok") /\ clean') =>
          /\ Sorted(last'.ret)
          /\ Range(last'.ret) = bitmap'[last'.h]
          /\ last'.tc > 0 =>
                last'.prog.num * last'.tc
                    = 100 * Cardinality(bitmap'[last'.h]) * last'.prog.den]_vars

(* ================= properties of the status query ====================== *)
\* C21 as stated, for a status query right after a successful upload_chunk
\* that declared totalChunks, in runs where every store call succeeded:
\* get_upload_status returns exactly the uploaded indices and a progress of
\* (their number / totalChunks) * 100, which is 100 only when every index
\* 0..totalChunks-1 has been uploaded.
C21_Original ==
    [][(/\ Returned("get_upload_status", "ok") /\ clean'
        /\ last.op = "upload_chunk" /\ last.res = "ok" /\ last.tc > 0
        /\ last.h = last'.h) =>
          LET S == RecordedIdx(chunkInfo, last'.h)
          IN  /\ Range(last'.ret) = S
              /\ last'.prog.num * last.tc = 100 * Cardinality(S) * last'.prog.den
              /\ last'.prog.num = 100 * last'.prog.den
                    => \A i \in 0..(last.tc - 1) : i \in S]_vars

(* ================= properties of the chunk write ======================= *)
\* the errors upload_chunk raises for a chunk object it could not write
WriteErrors == {"upload_failed", "reupload_failed", "verify_failed"}

\* C22 as stated: upload_chunk raises a write error only after a second
\* upload_bytes call, the one retry, and then the bit of the chunk is unset.
C22_Original ==
    [][(ncalls' # ncalls /\ last'.op = "upload_chunk" /\ last'.res \in WriteErrors) =>
          /\ last'.puts = 2
          /\ last'.i \notin bitmap'[last'.h]]_vars

(* ================= properties of the failed commit ===================== *)
\* an upload_chunk call right after one with the same arguments whose commit
\* failed, with every store call of the retry succeeding
RetryAfterFailedCommit ==
    /\ last.op = "upload_chunk" /\ last.res = "db_write_failed"
    /\ ncalls' # ncalls /\ last'.op = "upload_chunk" /\ last'.fault = "none"
    /\ <<last'.u, last'.h, last'.i, last'.d, last'.tc, last'.fn>>
       = <<last.u, last.h, last.i, last.d, last.tc, last.fn>>

\* C23: an upload_chunk whose commit fails returns an error, persists no
\* FileRecord or ChunkRecord change and leaves the chunk object in the store;
\* the retry of the same call finds the object, does not write it again, and
\* ends with exactly one ChunkRecord, the FileRecord present and the bit set.
C23_CommitFailure ==
    [][/\ Returned("upload_chunk", "db_write_failed") =>
            /\ last'.fault = "commit"
            /\ UNCHANGED <<fileUpload, chunkInfo>>
            /\ tempObj'[<<last'.h, last'.i>>] # NoObj
       /\ (ncalls' # ncalls /\ last'.op = "upload_chunk" /\ last'.fault = "commit"
           /\ last'.res \notin WriteErrors \cup {"multiple_rows"})
             => last'.res = "db_write_failed"
       /\ RetryAfterFailedCommit =>
            /\ last'.res = "ok"
            /\ ~last'.wrote /\ last'.puts = 0
            /\ tempObj' = tempObj
            /\ chunkInfo'[<<last'.h, last'.i>>] = 1
            /\ fileUpload'[<<last'.h, last'.u>>] # NoRow
            /\ last'.i \in bitmap'[last'.h]]_vars

\* C23 happens: the retry after a failed commit took the repair branch (bit
\* set, no row), found the object and added the one row.
C23_Witness ==
    /\ last.op = "upload_chunk" /\ last.res = "ok" /\ last.fault = "none"
    /\ last.branch = "repair" /\ ~last.wrote
    /\ tempObj[<<last.h, last.i>>] = last.d
    /\ chunkInfo[<<last.h, last.i>>] = 1
    /\ fileUpload[<<last.h, last.u>>] # NoRow
    /\ last.i \in bitmap[last.h]

(* ================= properties of delete_file =========================== *)
\* a delete_file call that found the one record of the file and whose commit
\* did not fail
Deleted == /\ ncalls' # ncalls /\ last'.op = "delete_file"
           /\ last'.res \notin {"not_found", "multiple_rows"}
           /\ last'.fault # "commit"

\* C24: delete_file succeeds also when the merged object, the temporary
\* chunks or the index document of a document_vectors row is already gone:
\* the file_upload, chunk_info and document_vectors rows are deleted and the
\* bitmap and the meta key are cleared.
C24_DeleteTolerant ==
    [][(Deleted /\ last'.branch # "none") =>
          /\ last'.res = "ok"
          /\ \E o \in Users : /\ fileUpload[<<last'.h, o>>] # NoRow
                              /\ fileUpload'[<<last'.h, o>>] = NoRow
          /\ \A k \in DOMAIN chunkInfo : k[1] = last'.h => chunkInfo'[k] = 0
          /\ \A k \in DOMAIN docVectors : k[1] = last'.h => docVectors'[k] = 0
          /\ last'.fault # "redis" =>
                bitmap'[last'.h] = {} /\ ~redisMeta'[last'.h]]_vars

\* C24 happens: a merged file whose object was gone has been deleted.
C24_Witness ==
    /\ last.op = "delete_file" /\ last.res = "ok" /\ last.branch = "object"
    /\ fileUpload[<<last.h, last.u>>] = NoRow
    /\ kafkaTopic # << >>
    /\ bitmap[last.h] = {}

(* ================= properties of delete_org_tag ======================== *)
\* C25 as stated: delete_org_tag of a tag that has a child tag, or that a
\* user's org_tags or primary_org names, or that a file's org_tag names, is
\* rejected and the tag stays.
C25_Original ==
    [][(/\ ncalls' # ncalls /\ lastAdmin'.op = "delete_org_tag"
        /\ orgTags[lastAdmin'.tag] # NoTagRow
        /\ \/ ChildrenOf(orgTags, lastAdmin'.tag) # {}
           \/ UsersUsingTag(lastAdmin'.tag) # {}
           \/ FilesUsingTag(lastAdmin'.tag) # {}) =>
          /\ last'.res = "conflict"
          /\ orgTags'[lastAdmin'.tag] = orgTags[lastAdmin'.tag]]_vars

(* ================= properties of the accessible tags =================== *)
\* the tags below one of the tags of S: reached from S by one or more steps
\* from a parent to a child
DescendantsOf(tp, S) == {c \in TagIds : \E t \in S : IsAncestor(tp, t, c)}

\* C26: for every hierarchy, one with a cycle included, get_user_accessible_tags
\* ends and returns DEFAULT, the user's own tags and every transitive
\* descendant of them, and nothing else.
C26_AccessibleTags ==
    /\ [](walk.pc = "done" =>
            /\ walk.accessible_tags
                 = {DEFAULT_TAG} \cup walk.user_tags \cup DescendantsOf(walk.tp, walk.user_tags)
            /\ walk.accessible_tags = get_user_accessible_tags(walk.tp, walk.user_tags))
    /\ [](Len(walk.stack) <= NumTags)
    /\ (walk.pc \in {"tags", "descend"}) ~> (walk.pc = "done")

\* C26 happens: the walk ended on a hierarchy with a cycle that holds a tag of
\* the user, and returned the other tag of the cycle but not every tag.
C26_Witness ==
    /\ walk.pc = "done"
    /\ \E t \in walk.user_tags, c \in TagIds \ walk.user_tags :
          /\ IsAncestor(walk.tp, t, c) /\ IsAncestor(walk.tp, c, t)
          /\ c \in walk.accessible_tags
    /\ \E t \in TagIds : t \notin walk.accessible_tags


(* ============== properties of a failed query embedding ================= *)
\* C27 as stated: when embedding the query text fails, hybrid_search fails the
\* call: it ends with an error to its caller, returns no results, resolves no
\* permissions and sends no query to the search engine.
C27_Original ==
    [][(ncalls' # ncalls /\ last'.op = "hybrid_search" /\ last'.fault = "embed") =>
        /\ lastSearch'.error
        /\ lastSearch'.ret = {}
        /\ lastSearch'.accessible = {}
        /\ lastSearch'.queries = << >>]_vars


(* ============ properties of concurrent upload_chunk calls ============== *)
\* C28 as stated: once upload_chunk calls of one user for the distinct chunk
\* indices of one file hash have returned, in whatever order their steps
\* interleaved, there is exactly one file_upload row for (file hash, user),
\* exactly one chunk_info row per index, and the bit of every index is set.
C28_Original ==
    \A h \in Hashes, u \in Users :
        (\A i \in ChunkIdx : uploads[i].pc = "done" /\ uploads[i].h = h /\ uploads[i].u = u)
        => /\ FileRows(fileUpload, dupFileRows, h, u) = 1
           /\ \A i \in ChunkIdx : chunkInfo[<<h, i>>] = 1
           /\ ChunkIdx \subseteq bitmap[h]


(* ========== properties of a private file under the DEFAULT tag ========= *)
\* the index holds a window of file h, written by the pipeline for owner a,
\* private and under the DEFAULT tag
IndexedPrivateDefault(h, a) ==
    \E k \in DOMAIN esIndex :
        /\ k[1] = h /\ esIndex[k] # NoEsDoc
        /\ esIndex[k].user_id = a
        /\ ~esIndex[k].is_public
        /\ esIndex[k].org_tag = DEFAULT_TAG

\* C29 as stated: a file that user A uploaded with isPublic = false and
\* orgTag = DEFAULT, merged and processed, is returned by hybrid_search to A,
\* and is not returned to another user B whose organization tags share nothing
\* with the tags of A.
C29_Original ==
    [][\A h \in Hashes, a \in Users :
        (/\ ncalls' # ncalls /\ last'.op = "hybrid_search" /\ last'.res = "ok"
         /\ IndexedPrivateDefault(h, a)
         /\ fileUpload[<<h, a>>] # NoRow
         /\ fileUpload[<<h, a>>].status = STATUS_MERGED)
        => /\ lastSearch'.u = a => \E r \in lastSearch'.ret : r.file_md5 = h
           /\ (/\ lastSearch'.u # a
               /\ (lastSearch'.accessible \ {DEFAULT_TAG})
                    \cap get_user_accessible_tags(orgTags, userOrgTags[a])
                  = {})
              => ~\E r \in lastSearch'.ret : r.file_md5 = h]_vars


(* ============ properties of the queries sent to the engine ============= *)
\* the queries of a search that ask the engine for documents: the count query
\* of lines 386-390 and 421-425 is sent with size 0 and returns none
FetchingQueries(s) ==
    {k \in 1..Len(s.queries) : s.queries[k].kind \in {"hybrid", "keyword"}}

\* C30: every query hybrid_search sends to fetch results carries the
\* permission clauses built for the calling user, under a bool.should that is
\* neither empty nor match_all, and so does the keyword-only query it builds
\* for the fallback; every result returned matches those clauses.
C30_FilteredQueries ==
    [][(ncalls' # ncalls /\ last'.op = "hybrid_search") =>
        LET s == lastSearch'
            filters == build_elasticsearch_permission_filters(s.u, s.accessible)
        IN  /\ s.u \in Users /\ s.queries # << >>
                => s.accessible = get_user_accessible_tags(orgTags, userOrgTags[s.u])
            /\ \A k \in FetchingQueries(s) :
                  /\ ~s.queries[k].filter.all
                  /\ s.queries[k].filter.should = filters
                  /\ Len(s.queries[k].filter.should) >= 3
            /\ s.queries # << >> =>
                  /\ s.queries[1].kind = "hybrid"
                  /\ ~FallbackFilter(filters).all
                  /\ FallbackFilter(filters).should = filters
            /\ \A r \in s.ret :
                  \E c \in 1..Len(filters) :
                      MatchClause(filters[c], esIndex[<<r.file_md5, r.chunk_id>>])]_vars

\* C30 happens: a search by an account that may see none of the indexed
\* documents sent the filtered hybrid query, got nothing, and then sent the
\* match_all count query.
C30_Witness ==
    /\ last.op = "hybrid_search" /\ lastSearch.res = "ok"
    /\ lastSearch.u = OtherUser
    /\ lastSearch.accessible # {DEFAULT_TAG}
    /\ lastSearch.ret = {}
    /\ \E k \in DOMAIN esIndex : esIndex[k] # NoEsDoc
    /\ Len(lastSearch.queries) = 2
    /\ ~lastSearch.queries[1].filter.all
    /\ lastSearch.queries[2].kind = "count" /\ lastSearch.queries[2].filter.all


(* ========== properties of the ancestor walk of update_org_tag ========== *)
\* C31 as stated: for every table of tags, one with a cycle that does not
\* pass through the tag being reparented included, the walk of update_org_tag
\* from the new parent ends within as many steps as there are tags.
C31_Original == climb.pc = "walking" => climb.steps <= NumTags - 1


(* ============== properties of the document_vectors rows ================ *)
\* C32 as stated: after any number of process_document runs for a file hash
\* (retries of one message, messages delivered again) there is at most one
\* document_vectors row per (file hash, chunk ordinal).
C32_Original == \A k \in DOMAIN docVectors : docVectors[k] <= 1


(* ========= properties of the rows and documents of one run ============= *)
\* C33 as stated: when a process_document run ends, the windows it committed a
\* document_vectors row for are the windows it wrote an index document for:
\* a window that got a row has its document {md5}_{ordinal} in the index, and
\* a window whose document the run wrote got a row.
C33_Original ==
    [][(ncalls' # ncalls /\ last'.op = "process_document") =>
        \A k \in DOMAIN docVectors :
            /\ docVectors'[k] > docVectors[k] => esIndex'[k] # NoEsDoc
            /\ esIndex'[k] # esIndex[k] => docVectors'[k] > docVectors[k]]_vars


(* ================= properties of the consumer loop ===================== *)
\* C34: a failure while a message is handled (a message without a required
\* field, a process_document that fails on every attempt) does not stop the
\* consumer: it moves on by exactly one message, and the next message of the
\* topic can be handed to the handler.  The consumer has one message in hand
\* at a time and takes the messages in the order of the topic: while a message
\* is in hand every process_document run is for that message, and no message
\* is taken before the one in hand is done.
C34_ConsumerGoesOn ==
    /\ [](consumer.pc \in {"idle", "run"})
    /\ []((consumer.pc = "idle" /\ consumer.offset <= Len(kafkaTopic)
             /\ ncalls < MaxCalls) => ENABLED DoHandleBegin)
    /\ [][consumer' # consumer =>
            /\ consumer'.offset \in {consumer.offset, consumer.offset + 1}
            /\ consumer.offset <= Len(kafkaTopic)
            /\ consumer.pc = "run" =>
                  /\ last'.op = "process_document"
                  /\ last'.h = kafkaTopic[consumer.offset].file_md5
                  /\ last'.fn = kafkaTopic[consumer.offset].file_name
            /\ consumer.pc = "idle" => last'.op = "handle_kafka_message"
            /\ consumer'.pc = "run" => consumer'.offset = consumer.offset
            /\ consumer'.pc = "idle" => consumer'.offset = consumer.offset + 1]_vars

\* C34 happens: the handling of the first message failed, the consumer went
\* on, and the second message was handed to the handler as well.
C34_Witness ==
    /\ Len(kafkaTopic) = 2
    /\ MissingFields(kafkaTopic[1]) # {}
    /\ consumer.pc = "idle" /\ consumer.offset = 3
    /\ last.op = "handle_kafka_message"


(* ============ properties of what delete_file leaves behind ============= *)
\* C35 as stated: when delete_file has returned success for a file, nothing of
\* the file is left: no file_upload, chunk_info or document_vectors row, no
\* document in the index, no merged object, no temporary chunk object, and no
\* bitmap or meta key.
C35_Original ==
    [][(ncalls' # ncalls /\ last'.op = "delete_file" /\ last'.res = "ok") =>
        LET h == last'.h
            gone == {o \in Users : fileUpload[<<h, o>>] # NoRow
                                     /\ fileUpload'[<<h, o>>] = NoRow}
        IN  /\ gone # {}
            /\ \A k \in DOMAIN chunkInfo : k[1] = h => chunkInfo'[k] = 0
            /\ \A k \in DOMAIN docVectors : k[1] = h => docVectors'[k] = 0
            /\ \A k \in DOMAIN esIndex : k[1] = h => esIndex'[k] = NoEsDoc
            /\ \A o \in gone : docObj'[<<o, fileUpload[<<h, o>>].file_name>>] = NoDoc
            /\ \A k \in DOMAIN tempObj : k[1] = h => tempObj'[k] = NoObj
            /\ bitmap'[h] = {} /\ ~redisMeta'[h]]_vars


(* ========== properties of a private file without a tag ================= *)
\* C36 as stated: a file whose file_upload row is not public and has no
\* org_tag, and whose windows the pipeline indexed as private windows of its
\* owner, is returned by hybrid_search to no user but the owner.
C36_Original ==
    [][\A h \in Hashes, a \in Users :
        (/\ ncalls' # ncalls /\ last'.op = "hybrid_search" /\ last'.res = "ok"
         /\ fileUpload[<<h, a>>] # NoRow
         /\ fileUpload[<<h, a>>].org_tag = NoTag
         /\ ~fileUpload[<<h, a>>].is_public
         /\ \E k \in DOMAIN esIndex : k[1] = h /\ esIndex[k] # NoEsDoc
         /\ \A k \in DOMAIN esIndex :
               (k[1] = h /\ esIndex[k] # NoEsDoc)
                  => esIndex[k].user_id = a /\ ~esIndex[k].is_public
         /\ lastSearch'.u # a)
        => ~\E r \in lastSearch'.ret : r.file_md5 = h]_vars


(* ========== properties of the listing of the accessible files ========== *)
\* the filter of hybrid_search for user u whose org_tags column lists
\* org_tags admits a document that carries the owner, tag and flag of row
SearchAdmits(u, org_tags, owner, row) ==
    MatchFilter(PermissionFilter(build_elasticsearch_permission_filters(
                    u, get_user_accessible_tags(orgTags, org_tags))),
                [user_id |-> owner, org_tag |-> row.org_tag,
                 is_public |-> row.is_public])

\* C37 as stated: get_accessible_files for a user who is no administrator
\* returns a file_upload row exactly when the permission filter of the search
\* for that user admits the row's owner, tag and flag.
C37_Original ==
    [][(ncalls' # ncalls /\ last'.op = "get_accessible_files"
          /\ listed'.u \notin AdminUsers)
        => \A k \in DOMAIN fileUpload :
              fileUpload[k] # NoRow
                => (k \in listed'.files
                      <=> SearchAdmits(listed'.u, listed'.org_tags, k[2],
                                       fileUpload[k]))]_vars


(* ===== properties of delete_file while process_document is in flight === *)
\* C40 as stated: when a process_document call ends and delete_file has
\* removed the file's row while the call was in flight, no document of the
\* file is in the search index.
C40_Original ==
    [][(proc.pc = "indexed" /\ proc'.pc = "idle"
          /\ \A o \in Owners : fileUpload[<<proc.h, o>>] = NoRow)
        => \A k \in DOMAIN esIndex : k[1] = proc.h => esIndex'[k] = NoEsDoc]_vars


(* ========== properties of the merged objects of one owner ============== *)
\* C38 as stated: an upload, merge or deletion of one file leaves the merged
\* object of every other merged file of the same owner, the object at
\* documents/{owner}/{recorded file name}, as it was.
C38_Original ==
    [][\A h \in AllHashes, u \in Users :
        (/\ ncalls' # ncalls
         /\ last'.op \in {"upload_chunk", "merge_file", "delete_file"}
         /\ last'.u = u /\ last'.h # h
         /\ fileUpload[<<h, u>>] # NoRow
         /\ fileUpload[<<h, u>>].status = STATUS_MERGED
         /\ docObj[<<u, fileUpload[<<h, u>>].file_name>>] # NoDoc)
        => docObj'[<<u, fileUpload[<<h, u>>].file_name>>]
             = docObj[<<u, fileUpload[<<h, u>>].file_name>>]]_vars

(* ========== properties of two accounts with one content hash =========== *)
\* C39 as stated: a merge_file or delete_file call of one account that
\* succeeds leaves the bits and the temporary chunk objects of the hash as
\* they were while another account has an upload of the hash under way.
C39_Original ==
    [][\A h \in Hashes, b \in Owners :
        (/\ ncalls' # ncalls
         /\ last'.op \in {"merge_file", "delete_file"}
         /\ last'.res = "ok" /\ last'.h = h /\ last'.u # b
         /\ fileUpload[<<h, b>>] # NoRow
         /\ fileUpload[<<h, b>>].status = STATUS_UPLOADING)
        => /\ bitmap'[h] = bitmap[h]
           /\ \A i \in ChunkIdx : tempObj'[<<h, i>>] = tempObj[<<h, i>>]]_vars

=============================================================================
